---- MODULE Spec2Model ----
(***************************************************************************)
(* A model of the fund-forge data server and strategy runtime:             *)
(*   - the vendor feed fan-out (Rithmic and Oanda data_feed_subscribe /     *)
(*     data_feed_unsubscribe),                                              *)
(*   - the paper ledger (Ledger, Position),                                 *)
(*   - the historical archive (HybridStorage),                              *)
(*   - the strategy-side request handler (callbacks),                       *)
(*   - the strategy-side subscription handler.                              *)
(* Each part has its own specification over the module's variables; the     *)
(* variables of the other parts keep their initial values.                  *)
(***************************************************************************)
EXTENDS Integers, Sequences, FiniteSets, TLC

VARIABLES
    \* ---- vendor feed fan-out (data server) ----
    vendor,                    \* which vendor client the streams talk to
    is_connected,              \* RITHMIC_DATA_IS_CONNECTED / OANDA_IS_CONNECTED
    tick_feed_broadcasters,    \* RithmicClient: symbol names with a tick sender
    quote_feed_broadcasters,   \* Rithmic/Oanda client: symbol names with a quote sender
    candle_feed_broadcasters,  \* RithmicClient: symbol names with a candle sender
    other_quote_keys,          \* Oanda: number of further symbols holding a quote sender
    stream_receivers,          \* stream task table: set of <<stream, subscription>>
    last_call,                 \* what the most recent subscribe/unsubscribe call did
    \* ---- paper ledger (strategy side) ----
    ledger,                    \* Ledger: cash_value, cash_available, cash_used, open_pnl, booked_pnl
    positions,                 \* Ledger.positions: symbol -> open Position
    positions_closed,          \* Ledger.positions_closed: symbol -> sequence of Position
    positions_counter,         \* Ledger.positions_counter: symbol -> u64
    ledger_ops,                \* number of ledger operations performed so far
    ledger_last,               \* the last ledger operation and its result
    \* ---- historical archive (data server) ----
    files,                     \* day -> the bytes of the day file (<<>>: no file)
    mmap_cache,                \* HybridStorage.mmap_cache: the days whose file is mapped
    cache_is_updated,          \* HybridStorage.cache_is_updated: the mapped days marked true
    cache_last_accessed,       \* HybridStorage.cache_last_accessed: the days holding a time
    saved_latest,              \* close-time -> payload of the latest save holding it
    archive_last,              \* what the most recent save did
    round_trip,                \* the batch of the most recent save, for a later read
    last_range,                \* the most recent get_data_range since that save
    \* ---- request handler (strategy side) ----
    callback_id_counter,       \* request_handler: callback_id_counter
    callbacks,                 \* request_handler: callbacks, id -> oneshot
    incoming,                  \* id -> responses read from the sockets, their tasks not yet run
    issued,                    \* oneshot n -> the id injected in its request
    requested,                 \* oneshot n -> the function that awaits it
    received,                  \* oneshot n -> the ids of the responses sent through it
    dropped,                   \* the oneshots whose receiver gave up waiting
    event_buffer,              \* number of responses handed to the strategy event buffer
    callback_last,             \* what the most recent response task did
    \* ---- subscription handler (strategy side) ----
    strategy_mode,             \* SubscriptionHandler.strategy_mode
    vendor_settings,           \* what the symbol's vendor serves: resolutions, data types
    strategy_subscriptions,    \* SubscriptionHandler.strategy_subscriptions
    fundamental_subscriptions, \* SubscriptionHandler.fundamental_subscriptions
    symbol_subscriptions,      \* whether symbol_subscriptions holds the symbol's handler
    primary_subscriptions,     \* SymbolSubscriptionHandler.primary_subscriptions
    secondary_subscriptions,   \* SymbolSubscriptionHandler.secondary_subscriptions
    subs_last,                 \* what the most recent subscribe/unsubscribe did
    \* ---- live warm-up (strategy side) ----
    wu_config,                 \* the arguments of live_warm_up, the clock and the archive
    wu_pc,                     \* where live_warm_up is: "main", "day" or "done"
    wu_last_time,              \* last_time
    wu_first_iteration,        \* first_iteration
    wu_to_time,                \* to_time
    wu_time,                   \* time
    wu_time_slices,            \* time_slices: the close-times still held
    wu_update_pending,         \* an update waits in primary_subscription_update_receiver
    wu_updates_left,           \* primary subscription updates still to come
    wu_errors_left,            \* failures of get_historical_data still to come
    wu_complete_events,        \* number of WarmUpComplete events sent
    wu_step,                   \* the latest step of 'day_loop: its time, the one before, its slice,
                               \* and the records delivered so far (and those delivered twice)
    \* ---- one position under price updates ----
    position,                  \* the Position
    position_updates,          \* the market prices of the updates it was given
    position_closed_at,        \* the update that closed it, 0 if none did
    position_at_close,         \* the Position as that update left it
    \* ---- one Heikin-Ashi consolidator (strategy side) ----
    ha_current,                \* current_data: the bar being built, None if there is none
    ha_previous,               \* previous_ha_open and previous_ha_close
    ha_history,                \* history: the closed bars retained
    ha_clock,                  \* the latest time given to update_time
    ha_steps,                  \* number of calls made so far
    ha_last,                   \* the latest call: its input, current_data before it, what it returned
    \* ---- the data updates of one feed on one connection (strategy side) ----
    feed_read,                 \* number of DataUpdates messages the read loop has read, numbered in arrival order
    feed_tasks,                \* the messages whose spawned task has not run yet
    event_channel,             \* the messages sent to the strategy's event channel, in the order sent
    \* ---- the backfill of historical data (data server) ----
    download_tasks,            \* download_tasks: the symbol names registered as downloading, in order
    backfill_tasks,            \* the tasks update_symbol has spawned: symbol and position of each
    download_permits,          \* the permits left in download_semaphore
    backfill_last,             \* the latest update_symbol call: its symbol and whether it spawned a task
    \* ---- concurrent data_feed_subscribe calls for one feed key (data server) ----
    sub_pc,                    \* where the call of each stream is: "idle", "absent", "inserted" or "done"
    feed_sender,               \* the sender the broadcaster map holds for the key: its creator, 0 if none
    senders_created,           \* the streams whose call created a broadcast channel
    receiver_of,               \* for each stream the sender its registered receiver belongs to, 0 if none
    vendor_requests,           \* number of market data requests sent to the vendor for the key
    \* ---- the scheduled update of historical data (database.rs update_data, rithmic update_historical_data) ----
    dl_config,                 \* the configured symbol: its start_date, the clock, the records the vendor holds
    dl_pc,                     \* "idle", "skipped" (no task for the symbol), "loop" (inside 'main_loop) or "Ok" (returned)
    dl_update,                 \* the latest update_data pass over the symbol: what it saw and the task it spawned
    dl_window_start,           \* window_start of update_historical_data
    dl_save_attempts,          \* save_attempts of update_historical_data
    dl_saved,                  \* the close-times of the records save_data_bulk has stored
    dl_returned,               \* the close-times of the records the vendor returned during the download
    dl_failed_saves,           \* how many save_data_bulk calls failed in a row
    dl_passes,                 \* how many update_data passes ran
    \* ---- the outgoing requests of the strategy (server_connections.rs send_request, request_handler) ----
    req_sent,                  \* how many requests of LiveRequests send_request has put on the channel
    req_recv,                  \* how many of them request_handler has received
    req_tasks,                 \* the spawned tasks that have not yet written their request
    req_written                \* the requests written to the connection, in the order of the writes

fanoutVars == <<vendor, is_connected, tick_feed_broadcasters, quote_feed_broadcasters,
                candle_feed_broadcasters, other_quote_keys, stream_receivers, last_call>>

ledgerVars == <<ledger, positions, positions_closed, positions_counter, ledger_ops,
                ledger_last>>

archiveVars == <<files, mmap_cache, cache_is_updated, cache_last_accessed, saved_latest,
                 archive_last, round_trip, last_range>>

callbackVars == <<callback_id_counter, callbacks, incoming, issued, requested, received,
                  dropped, event_buffer, callback_last>>

subsVars == <<strategy_mode, vendor_settings, strategy_subscriptions,
              fundamental_subscriptions, symbol_subscriptions, primary_subscriptions,
              secondary_subscriptions, subs_last>>

warmupVars == <<wu_config, wu_pc, wu_last_time, wu_first_iteration, wu_to_time, wu_time,
                wu_time_slices, wu_update_pending, wu_updates_left, wu_errors_left,
                wu_complete_events, wu_step>>

positionVars == <<position, position_updates, position_closed_at, position_at_close>>

consolidatorVars == <<ha_current, ha_previous, ha_history, ha_clock, ha_steps, ha_last>>

streamVars == <<feed_read, feed_tasks, event_channel>>

backfillVars == <<download_tasks, backfill_tasks, download_permits, backfill_last>>

raceVars == <<sub_pc, feed_sender, senders_created, receiver_of, vendor_requests>>

updateVars == <<dl_config, dl_pc, dl_update, dl_window_start, dl_save_attempts, dl_saved, dl_returned, dl_failed_saves, dl_passes>>

requestVars == <<req_sent, req_recv, req_tasks, req_written>>

vars == <<fanoutVars, ledgerVars, archiveVars, callbackVars, subsVars, warmupVars,
          positionVars,
    consolidatorVars,
    streamVars,
    backfillVars,
    raceVars,
    updateVars,
    requestVars>>

\* What the actions of one part leave alone: the variables of the other parts.
notFanout == <<ledgerVars, archiveVars, callbackVars, subsVars, warmupVars,
    positionVars,
    consolidatorVars,
    streamVars,
    backfillVars,
    raceVars,
    updateVars,
    requestVars>>
notLedger == <<fanoutVars, archiveVars, callbackVars, subsVars, warmupVars,
    positionVars,
    consolidatorVars,
    streamVars,
    backfillVars,
    raceVars,
    updateVars,
    requestVars>>
notArchive == <<fanoutVars, ledgerVars, callbackVars, subsVars, warmupVars,
    positionVars,
    consolidatorVars,
    streamVars,
    backfillVars,
    raceVars,
    updateVars,
    requestVars>>
notCallbacks == <<fanoutVars, ledgerVars, archiveVars, subsVars, warmupVars,
    positionVars,
    consolidatorVars,
    streamVars,
    backfillVars,
    raceVars,
    updateVars,
    requestVars>>
notSubs == <<fanoutVars, ledgerVars, archiveVars, callbackVars, warmupVars,
    positionVars,
    consolidatorVars,
    streamVars,
    backfillVars,
    raceVars,
    updateVars,
    requestVars>>
notPosition == <<fanoutVars, ledgerVars, archiveVars, callbackVars, subsVars, warmupVars,
    consolidatorVars,
    streamVars,
    backfillVars,
    raceVars,
    updateVars,
    requestVars>>
notWarmup == <<fanoutVars, ledgerVars, archiveVars, callbackVars, subsVars,
    positionVars,
    consolidatorVars,
    streamVars,
    backfillVars,
    raceVars,
    updateVars,
    requestVars>>
notConsolidator == <<fanoutVars, ledgerVars, archiveVars, callbackVars, subsVars,
    warmupVars, positionVars,
    streamVars,
    backfillVars,
    raceVars,
    updateVars,
    requestVars>>
notStream == <<fanoutVars, ledgerVars, archiveVars, callbackVars, subsVars,
    warmupVars, positionVars, consolidatorVars,
    backfillVars,
    raceVars,
    updateVars,
    requestVars>>
notBackfill == <<fanoutVars, ledgerVars, archiveVars, callbackVars, subsVars,
    warmupVars, positionVars, consolidatorVars, streamVars,
    raceVars,
    updateVars,
    requestVars>>
notRace == <<fanoutVars, ledgerVars, archiveVars, callbackVars, subsVars,
    warmupVars, positionVars, consolidatorVars, streamVars, backfillVars,
    updateVars,
    requestVars>>
notUpdate == <<fanoutVars, ledgerVars, archiveVars, callbackVars, subsVars,
    warmupVars, positionVars, consolidatorVars, streamVars, backfillVars,
    raceVars,
    requestVars>>
notRequest == <<fanoutVars, ledgerVars, archiveVars, callbackVars, subsVars,
    warmupVars, positionVars, consolidatorVars, streamVars, backfillVars,
    raceVars, updateVars>>

(***************************************************************************)
(*                         VENDOR FEED FAN-OUT                              *)
(***************************************************************************)

Streams == {"A", "B"}

\* get_available_symbol_names() holds "ES"; "XX" is a name the vendor does not list.
AvailableSymbols == {"ES"}

Sub(sym, res, type) == [symbol |-> sym, resolution |-> res, base_data_type |-> type]

\* The subscriptions the streams ask for (all of market type Futures).
RithmicSubscriptions ==
    { Sub("ES", "Ticks1", "Ticks"),
      Sub("ES", "Instant", "Quotes"),
      Sub("ES", "Seconds1", "Candles"),
      Sub("ES", "Instant", "Candles"),
      Sub("ES", "Minutes1", "Candles"),
      Sub("ES", "Seconds1", "QuoteBars"),
      Sub("XX", "Instant", "Quotes") }

OandaSubscriptions ==
    { Sub("EUR-USD", "Instant", "Quotes"),
      Sub("EUR-USD", "Seconds5", "QuoteBars") }

\* The number of further Oanda symbols (subscribed by other streams) the model counts.
MaxOtherKeys == 21

\* keys.len() == 20 in OandaClient::data_feed_subscribe
OandaMaxSubscriptions == 20

FeedKey(sub) == <<sub.base_data_type, sub.symbol>>

BroadcasterMap(type) ==
    CASE type = "Ticks"   -> tick_feed_broadcasters
      [] type = "Quotes"  -> quote_feed_broadcasters
      [] type = "Candles" -> candle_feed_broadcasters
      [] OTHER            -> {}

broadcaster_exists(key) == key[2] \in BroadcasterMap(key[1])

\* Receivers attached to the broadcaster of a feed key: one per registered
\* (stream, subscription) whose subscription is served by that key.
ReceiversOf(table, key) == { e \in table : FeedKey(e[2]) = key }

receiver_count(key) == Cardinality(ReceiversOf(stream_receivers, key))

\* stream_tasks::subscribe_stream: register (stream, sub) -> receiver.
subscribe_stream(table, stream, sub) == table \cup {<<stream, sub>>}

\* stream_tasks::unsubscribe_stream: remove (stream, sub) from the table.
unsubscribe_stream(table, stream, sub) == table \ {<<stream, sub>>}

NoCall == [op |-> "none", key |-> <<"", "">>, stream |-> "", success |-> FALSE,
           had_broadcaster |-> FALSE, has_broadcaster |-> FALSE,
           count_before |-> 0, count_after |-> 0,
           vendor_subscribe |-> FALSE, vendor_unsubscribe |-> FALSE]

Call(op, stream, sub, success, had, has, before, after, vsub, vunsub) ==
    [op |-> op, key |-> FeedKey(sub), stream |-> stream, success |-> success,
     had_broadcaster |-> had, has_broadcaster |-> has,
     count_before |-> before, count_after |-> after,
     vendor_subscribe |-> vsub, vendor_unsubscribe |-> vunsub]

InitFanoutOf(v) ==
    /\ vendor = v
    /\ is_connected = TRUE
    /\ tick_feed_broadcasters = {}
    /\ quote_feed_broadcasters = {}
    /\ candle_feed_broadcasters = {}
    /\ other_quote_keys = 0
    /\ stream_receivers = {}
    /\ last_call = NoCall

\* The vendor socket goes up or down.
ConnectionChange ==
    /\ is_connected' = ~is_connected
    /\ UNCHANGED notFanout
    /\ UNCHANGED <<vendor, tick_feed_broadcasters, quote_feed_broadcasters,
                   candle_feed_broadcasters, other_quote_keys, stream_receivers, last_call>>

RithmicResolutions == {"Instant", "Ticks1", "Seconds1"}
BASEDATA_TYPES == {"Ticks", "Quotes", "Candles"}

\* A subscribe call that returns before it touches the maps.
RejectedSubscribe(stream, sub) ==
    /\ last_call' = Call("subscribe", stream, sub, FALSE,
                         broadcaster_exists(FeedKey(sub)), broadcaster_exists(FeedKey(sub)),
                         receiver_count(FeedKey(sub)), receiver_count(FeedKey(sub)),
                         FALSE, FALSE)
    /\ UNCHANGED <<vendor, is_connected, tick_feed_broadcasters, quote_feed_broadcasters,
                   candle_feed_broadcasters, other_quote_keys, stream_receivers>>

\* Whether the candle branch builds a RequestTimeBarUpdate for the resolution.
CandleBarType(res) == res \in {"Seconds1", "Seconds5", "Minutes1"}

\* RithmicClient::data_feed_subscribe
RithmicSubscribe(stream, sub) ==
    /\ vendor = "Rithmic"
    /\ UNCHANGED notFanout
    /\ IF \/ ~is_connected
          \/ sub.symbol \notin AvailableSymbols
          \/ sub.resolution \notin RithmicResolutions
          \/ sub.base_data_type \notin BASEDATA_TYPES
       THEN RejectedSubscribe(stream, sub)
       ELSE LET key == FeedKey(sub)
                had == broadcaster_exists(key)
                table == subscribe_stream(stream_receivers, stream, sub)
                is_subscribed == had
                sends == /\ ~is_subscribed
                         /\ (sub.base_data_type = "Candles" => CandleBarType(sub.resolution))
                fails == /\ ~is_subscribed
                         /\ sub.base_data_type = "Candles"
                         /\ ~CandleBarType(sub.resolution)
            IN  /\ tick_feed_broadcasters' =
                      IF sub.base_data_type = "Ticks"
                      THEN tick_feed_broadcasters \cup {sub.symbol} ELSE tick_feed_broadcasters
                /\ quote_feed_broadcasters' =
                      IF sub.base_data_type = "Quotes"
                      THEN quote_feed_broadcasters \cup {sub.symbol} ELSE quote_feed_broadcasters
                /\ candle_feed_broadcasters' =
                      IF sub.base_data_type = "Candles"
                      THEN candle_feed_broadcasters \cup {sub.symbol} ELSE candle_feed_broadcasters
                /\ stream_receivers' = table
                /\ last_call' = Call("subscribe", stream, sub, ~fails, had, TRUE,
                                     receiver_count(key), Cardinality(ReceiversOf(table, key)),
                                     sends, FALSE)
                /\ UNCHANGED <<vendor, is_connected, other_quote_keys>>

\* RithmicClient::data_feed_unsubscribe
RithmicUnsubscribe(stream, sub) ==
    /\ vendor = "Rithmic"
    /\ UNCHANGED notFanout
    /\ LET key == FeedKey(sub)
           table == unsubscribe_stream(stream_receivers, stream, sub)
           known == sub.base_data_type \in BASEDATA_TYPES
           after == Cardinality(ReceiversOf(table, key))
           should_disconnect == known /\ broadcaster_exists(key) /\ after = 0
           removes == should_disconnect /\ sub.base_data_type \in {"Quotes", "Ticks"}
       IN  /\ stream_receivers' = table
           /\ tick_feed_broadcasters' =
                 IF removes /\ sub.base_data_type = "Ticks"
                 THEN tick_feed_broadcasters \ {sub.symbol} ELSE tick_feed_broadcasters
           /\ quote_feed_broadcasters' =
                 IF removes /\ sub.base_data_type = "Quotes"
                 THEN quote_feed_broadcasters \ {sub.symbol} ELSE quote_feed_broadcasters
           /\ UNCHANGED candle_feed_broadcasters
           /\ last_call' = Call("unsubscribe", stream, sub, known,
                                broadcaster_exists(key), broadcaster_exists(key) /\ ~removes,
                                receiver_count(key), after, FALSE, should_disconnect)
           /\ UNCHANGED <<vendor, is_connected, other_quote_keys>>

\* OandaClient::data_feed_subscribe
OandaSubscribe(stream, sub) ==
    /\ vendor = "Oanda"
    /\ UNCHANGED notFanout
    /\ IF ~is_connected \/ <<sub.resolution, sub.base_data_type>> # <<"Instant", "Quotes">>
       THEN RejectedSubscribe(stream, sub)
       ELSE LET key == FeedKey(sub)
                had == broadcaster_exists(key)
                table == subscribe_stream(stream_receivers, stream, sub)
                map == quote_feed_broadcasters \cup {sub.symbol}
                keys_len == Cardinality(map) + other_quote_keys
                capped == ~had /\ keys_len = OandaMaxSubscriptions
            IN  /\ quote_feed_broadcasters' = map
                /\ stream_receivers' = table
                /\ last_call' = Call("subscribe", stream, sub, ~capped, had, TRUE,
                                     receiver_count(key), Cardinality(ReceiversOf(table, key)),
                                     ~had /\ ~capped, FALSE)
                /\ UNCHANGED <<vendor, is_connected, tick_feed_broadcasters,
                               candle_feed_broadcasters, other_quote_keys>>

\* OandaClient::data_feed_subscribe by another stream for a further symbol that has
\* no broadcaster yet: the symbol's sender is stored, whatever the answer is.
OandaSubscribeOther ==
    /\ vendor = "Oanda"
    /\ UNCHANGED notFanout
    /\ is_connected
    /\ other_quote_keys < MaxOtherKeys
    /\ other_quote_keys' = other_quote_keys + 1
    /\ UNCHANGED <<vendor, is_connected, tick_feed_broadcasters, quote_feed_broadcasters,
                   candle_feed_broadcasters, stream_receivers, last_call>>

\* OandaClient::data_feed_unsubscribe
OandaUnsubscribe(stream, sub) ==
    /\ vendor = "Oanda"
    /\ UNCHANGED notFanout
    /\ LET key == FeedKey(sub)
           table == unsubscribe_stream(stream_receivers, stream, sub)
       IN  /\ stream_receivers' = table
           /\ last_call' = Call("unsubscribe", stream, sub, TRUE,
                                broadcaster_exists(key), broadcaster_exists(key),
                                receiver_count(key), Cardinality(ReceiversOf(table, key)),
                                FALSE, FALSE)
           /\ UNCHANGED <<vendor, is_connected, tick_feed_broadcasters, quote_feed_broadcasters,
                          candle_feed_broadcasters, other_quote_keys>>

NextFanout ==
    \/ ConnectionChange
    \/ \E s \in Streams, sub \in RithmicSubscriptions : RithmicSubscribe(s, sub)
    \/ \E s \in Streams, sub \in RithmicSubscriptions : RithmicUnsubscribe(s, sub)
    \/ \E s \in Streams, sub \in OandaSubscriptions : OandaSubscribe(s, sub)
    \/ OandaSubscribeOther
    \/ \E s \in Streams, sub \in OandaSubscriptions : OandaUnsubscribe(s, sub)

FeedKeys == {FeedKey(sub) : sub \in RithmicSubscriptions \cup OandaSubscriptions}

\* C1: after any sequence of subscribe/unsubscribe calls a broadcaster is stored
\* for a feed key if and only if the key has at least one attached receiver.
C1_BroadcasterIffReceivers ==
    \A key \in FeedKeys : broadcaster_exists(key) <=> receiver_count(key) > 0

\* C6: a subscribe that finds a broadcaster sends no vendor subscribe, and a
\* subscribe that creates the broadcaster sends it: one vendor subscribe per
\* broadcaster lifetime.
C6_VendorSubscribeOncePerBroadcaster ==
    (last_call.op = "subscribe") =>
        /\ last_call.had_broadcaster => ~last_call.vendor_subscribe
        /\ (~last_call.had_broadcaster /\ last_call.has_broadcaster)
              => last_call.vendor_subscribe

\* C7: an unsubscribe that leaves receivers on the key sends no vendor request;
\* the unsubscribe that brings the count to zero sends the vendor unsubscribe
\* and removes the broadcaster; a later unsubscribe sends none.
C7_VendorUnsubscribeOnTeardownOnly ==
    (last_call.op = "unsubscribe" /\ last_call.success) =>
        /\ last_call.count_after > 0 => ~last_call.vendor_unsubscribe
        /\ (last_call.count_before > 0 /\ last_call.count_after = 0)
              => (last_call.vendor_unsubscribe /\ ~last_call.has_broadcaster)
        /\ last_call.count_before = 0 => ~last_call.vendor_unsubscribe

(***************************************************************************)
(*                              PAPER LEDGER                                *)
(* Prices are whole numbers of ticks; the tick size is 1/TickDen of a       *)
(* price unit.  Amounts of money (f64 in the code) are whole numbers of      *)
(* 1/TickDen of the account currency, and every operation on them rounds    *)
(* its result as an f64 operation does, to a significand of MantissaBits    *)
(* bits.  Cash and margins are representable amounts; pnl is not a           *)
(* multiple of the spacing around them, as 0.0027 is not around 10000.0.    *)
(***************************************************************************)

LedgerSymbols == {"EUR-USD"}

\* tick_size = 1/TickDen (SymbolInfo.tick_size)
TickDen == 4
\* SymbolInfo.value_per_tick
ValuePerTick == 1
\* margin per contract, in the account currency (quantity * 100)
MarginPerContract == 100
\* the cash a paper account is opened with, in the account currency
InitialCash == 250
\* the highest price, in ticks, of an order or a price update
MaxPrice == 3
\* the highest quantity of one order
MaxQuantity == 2
\* the number of ledger operations explored
MaxLedgerOps == 3
\* the width, in bits, of the significand the amounts of money are rounded to
MantissaBits == 7

Prices == 1..MaxPrice
Quantities == 1..MaxQuantity

Money(amount) == amount * TickDen

None == <<>>

\* Option<Vec<ProtectiveOrder>> values the orders carry.
BracketChoices ==
    { None,
      <<[kind |-> "StopLoss", price |-> 1]>>,
      <<[kind |-> "TakeProfit", price |-> 3]>> }

\* The base data of a time slice: a tick with its price, or a quote with bid < ask.
Tick(sym, p) == [symbol |-> sym, kind |-> "Tick", price |-> p, bid |-> p, ask |-> p]
Quote(sym, b, a) == [symbol |-> sym, kind |-> "Quote", price |-> 0, bid |-> b, ask |-> a]

BaseDataInputs ==
    {Tick(sym, p) : sym \in LedgerSymbols, p \in Prices}
        \cup {Quote(sym, 1, 2) : sym \in LedgerSymbols}

TimeSlices == {<<d>> : d \in BaseDataInputs}

Has(map, k) == k \in DOMAIN map
Insert(map, k, v) == [x \in (DOMAIN map) \cup {k} |-> IF x = k THEN v ELSE map[x]]
Remove(map, k) == [x \in (DOMAIN map) \ {k} |-> map[x]]
EmptyMap == [x \in {} |-> 0]

RECURSIVE GCD(_, _)
GCD(a, b) == IF b = 0 THEN a ELSE GCD(b, a % b)

Abs(x) == IF x < 0 THEN -x ELSE x

\* f64::round of num/den (den > 0): to the nearest whole number, halves away from zero.
Round(num, den) ==
    IF num >= 0 THEN (2 * num + den) \div (2 * den)
                ELSE -((2 * (-num) + den) \div (2 * den))

RECURSIVE Pow2(_)
Pow2(n) == IF n = 0 THEN 1 ELSE 2 * Pow2(n - 1)

\* The spacing of the representable amounts around an amount of magnitude a.
RECURSIVE Ulp(_, _)
Ulp(a, u) == IF a < Pow2(MantissaBits) * u THEN u ELSE Ulp(a, 2 * u)

\* The result of one f64 operation whose exact value is x: the nearest amount with
\* a significand of MantissaBits bits, a tie going to the even significand.
Fl(x) ==
    LET a == Abs(x)
        u == Ulp(a, 1)
        q == a \div u
        r == a % u
        n == IF 2 * r > u \/ (2 * r = u /\ q % 2 = 1) THEN q + 1 ELSE q
    IN  IF x < 0 THEN -(n * u) ELSE n * u

\* Brokerage::margin_required_historical (test brokerage: quantity * 100)
margin_required_historical(quantity) == Fl(quantity * Money(MarginPerContract))

\* calculate_pnl: round_to_tick_size(price difference, tick_size) * (value_per_tick * quantity).
\* The entry price is entry_num/entry_den ticks, the market price whole ticks.  The
\* difference rounded to the tick is Round(..) ticks, that is Round(..)/TickDen price
\* units, which in money units of 1/TickDen is Round(..).
calculate_pnl(side, entry_num, entry_den, market_price, quantity) ==
    LET diff == IF side = "Long" THEN market_price * entry_den - entry_num
                                 ELSE entry_num - market_price * entry_den
    IN  Fl(Round(diff, entry_den) * Fl(ValuePerTick * quantity))

\* Position::enter
enter(sym, side, quantity, price, id, brackets) ==
    [symbol_name |-> sym, side |-> side, quantity |-> quantity,
     avg_num |-> price, avg_den |-> 1, open_pnl |-> 0, booked_pnl |-> 0,
     is_closed |-> FALSE, id |-> id, brackets |-> brackets]

\* Position::reduce_position_size; quantity is a u64, so a quantity larger than the
\* position's is an overflow of the subtraction (see UpdateOrCreatePaperPosition).
reduce_position_size(pos, market_price, quantity) ==
    LET booked == calculate_pnl(pos.side, pos.avg_num, pos.avg_den, market_price, quantity)
        q == pos.quantity - quantity
        closed == (q = 0)
    IN  [pos EXCEPT !.booked_pnl = booked,
                    !.open_pnl = IF closed THEN 0 ELSE Fl(pos.open_pnl - booked),
                    !.quantity = q,
                    !.is_closed = closed]

\* Position::add_to_position
add_to_position(pos, market_price, quantity) ==
    LET num == pos.quantity * pos.avg_num + quantity * market_price * pos.avg_den
        den == pos.avg_den * (pos.quantity + quantity)
        g == GCD(num, den)
        an == num \div g
        ad == den \div g
    IN  [pos EXCEPT !.avg_num = an, !.avg_den = ad,
                    !.open_pnl = calculate_pnl(pos.side, an, ad, market_price, pos.quantity),
                    !.quantity = pos.quantity + quantity]

\* The market price Position::update_base_data reads from a datum.
MarketPriceOf(side, data) ==
    CASE data.kind = "Tick"  -> data.price
      [] data.kind = "Quote" -> IF side = "Long" THEN data.ask ELSE data.bid

\* A bracket test that a market price at the bracket's price does not pass.
BracketHitStrict(side, bracket, market_price) ==
    IF (bracket.kind = "TakeProfit") = (side = "Long")
    THEN market_price > bracket.price
    ELSE market_price < bracket.price

\* Whether a bracket of the position is hit at the market price.
BracketHit(side, bracket, market_price) ==
    CASE bracket.kind = "TakeProfit" ->
            IF side = "Long" THEN market_price >= bracket.price
                             ELSE market_price <= bracket.price
      [] bracket.kind \in {"StopLoss", "TrailingStopLoss"} ->
            IF side = "Long" THEN market_price <= bracket.price
                             ELSE market_price >= bracket.price

\* Position::update_base_data: the position afterwards, and the pnl it returns.
update_base_data(pos, data) ==
    IF pos.is_closed THEN [position |-> pos, booked |-> 0]
    ELSE LET market_price == MarketPriceOf(pos.side, data)
             open == calculate_pnl(pos.side, pos.avg_num, pos.avg_den, market_price,
                                   pos.quantity)
             bracket_triggered ==
                 \E i \in DOMAIN pos.brackets : BracketHit(pos.side, pos.brackets[i], market_price)
         IN  IF bracket_triggered
             THEN [position |-> [pos EXCEPT !.booked_pnl = Fl(pos.booked_pnl + open),
                                            !.open_pnl = 0, !.is_closed = TRUE],
                   booked |-> open]
             ELSE [position |-> [pos EXCEPT !.open_pnl = open], booked |-> 0]

\* Push a position on the closed positions of its symbol.
PushClosed(closed, sym, pos) ==
    IF Has(closed, sym) THEN [closed EXCEPT ![sym] = Append(closed[sym], pos)]
                        ELSE Insert(closed, sym, <<pos>>)

\* Ledger::paper_account_init
paper_account_init(cash_value) ==
    [cash_value |-> cash_value, cash_available |-> cash_value, cash_used |-> 0,
     open_pnl |-> 0, booked_pnl |-> 0]

InitLedger ==
    /\ ledger = paper_account_init(Money(InitialCash))
    /\ positions = EmptyMap
    /\ positions_closed = EmptyMap
    /\ positions_counter = EmptyMap
    /\ ledger_ops = 0
    /\ ledger_last = [op |-> "init", result |-> "Ok"]

\* The ledger can take another operation: the bound is not reached, no earlier
\* operation aborted or blocked the task, and no position holds a wrapped quantity.
LedgerReady ==
    /\ ledger_ops < MaxLedgerOps
    /\ ledger_last.result \notin {"panic", "blocked"}
    /\ \A s \in DOMAIN positions : positions[s].quantity > 0

\* The cash fields after a reducing fill that booked pnl and released the margin of
\* quantity contracts.
ReduceCash(l, pnl, quantity) ==
    LET avail == Fl(l.cash_available + pnl)
        used == Fl(l.cash_used - margin_required_historical(quantity))
    IN  [l EXCEPT !.booked_pnl = Fl(l.booked_pnl + pnl),
                  !.cash_available = avail,
                  !.cash_used = used,
                  !.cash_value = Fl(avail + used)]

\* The cash fields after margin_required was set aside for an opened or enlarged position.
MarginCash(l, margin_required) ==
    LET avail == Fl(l.cash_available - margin_required)
        used == Fl(l.cash_used + margin_required)
    IN  [l EXCEPT !.cash_available = avail, !.cash_used = used,
                  !.cash_value = Fl(avail + used)]

\* The cash fields after exit_position_paper closed a position.
ExitCash(l, margin_freed, open_pnl) ==
    [l EXCEPT !.booked_pnl = Fl(l.booked_pnl + open_pnl),
              !.cash_available = Fl(l.cash_available + Fl(margin_freed + open_pnl)),
              !.cash_used = Fl(l.cash_used - margin_freed),
              !.cash_value = Fl(l.cash_value + open_pnl)]

Last(op, result) == [op |-> op, result |-> result]

\* The reducing branch of update_or_create_paper_position.
ReducePosition(sym, quantity, price, brackets) ==
    LET reduced == reduce_position_size(positions[sym], price, quantity)
        existing == IF brackets # None THEN [reduced EXCEPT !.brackets = brackets] ELSE reduced
    IN  /\ ledger' = ReduceCash(ledger, reduced.booked_pnl, quantity)
        /\ IF ~existing.is_closed
           THEN /\ positions' = [positions EXCEPT ![sym] = existing]
                /\ UNCHANGED positions_closed
           ELSE /\ positions' = Remove(positions, sym)
                /\ positions_closed' = PushClosed(positions_closed, sym, existing)
        /\ ledger_last' = [op |-> "reduce", result |-> "Ok", price |-> price,
                           quantity |-> quantity]
        /\ UNCHANGED positions_counter

\* The branch of update_or_create_paper_position that adds to a position of the same
\* side.  The position was taken out of the map before the funds are checked.
AddToPosition(sym, quantity, price, brackets) ==
    LET margin_required == margin_required_historical(quantity)
        added == add_to_position(positions[sym], price, quantity)
        existing == IF brackets # None THEN [added EXCEPT !.brackets = brackets] ELSE added
    IN  IF ledger.cash_available < margin_required
        THEN /\ positions' = Remove(positions, sym)
             /\ ledger_last' = Last("add", "InsufficientFunds")
             /\ UNCHANGED <<ledger, positions_closed, positions_counter>>
        ELSE /\ ledger' = [MarginCash(ledger, margin_required) EXCEPT
                             !.open_pnl = Fl(Fl(ledger.open_pnl - positions[sym].open_pnl)
                                                 + existing.open_pnl)]
             /\ positions' = [positions EXCEPT ![sym] = existing]
             /\ ledger_last' = Last("add", "Ok")
             /\ UNCHANGED <<positions_closed, positions_counter>>

\* The branch of update_or_create_paper_position that opens a position.
OpenPosition(sym, quantity, price, side, brackets) ==
    LET margin_required == margin_required_historical(quantity)
        counter == IF Has(positions_counter, sym) THEN positions_counter[sym] + 1 ELSE 1
        pside == IF side = "Buy" THEN "Long" ELSE "Short"
    IN  IF ledger.cash_available < margin_required
        THEN /\ ledger_last' = Last("open", "InsufficientFunds")
             /\ UNCHANGED <<ledger, positions, positions_closed, positions_counter>>
        ELSE /\ positions_counter' = Insert(positions_counter, sym, counter)
             /\ positions' = Insert(positions, sym,
                                    enter(sym, pside, quantity, price, counter, brackets))
             /\ ledger' = MarginCash(ledger, margin_required)
             /\ ledger_last' = Last("open", "Ok")
             /\ UNCHANGED positions_closed

\* Ledger::update_or_create_paper_position
UpdateOrCreatePaperPosition(sym, quantity, price, side, brackets) ==
    /\ LedgerReady
    /\ UNCHANGED notLedger
    /\ ledger_ops' = ledger_ops + 1
    /\ IF Has(positions, sym)
       THEN LET existing == positions[sym]
                is_reducing == \/ (existing.side = "Long" /\ side = "Sell")
                               \/ (existing.side = "Short" /\ side = "Buy")
            IN  IF is_reducing
                THEN \/ ReducePosition(sym, quantity, price, brackets)
                     \* self.quantity -= quantity overflows: with overflow checks the
                     \* task panics, holding the position it took out of the map;
                     \* without them the quantity wraps (kept here as the negative
                     \* number it is congruent to).
                     \/ /\ quantity > existing.quantity
                        /\ positions' = Remove(positions, sym)
                        /\ ledger_last' = Last("reduce", "panic")
                        /\ UNCHANGED <<ledger, positions_closed, positions_counter>>
                ELSE AddToPosition(sym, quantity, price, brackets)
       ELSE OpenPosition(sym, quantity, price, side, brackets)

\* Ledger::exit_position_paper
ExitPositionPaper(sym) ==
    /\ LedgerReady
    /\ UNCHANGED notLedger
    /\ ledger_ops' = ledger_ops + 1
    /\ IF ~Has(positions, sym)
       THEN /\ ledger_last' = Last("exit", "None")
            /\ UNCHANGED <<ledger, positions, positions_closed, positions_counter>>
       ELSE LET old == positions[sym]
                margin_freed == margin_required_historical(old.quantity)
                closed == [old EXCEPT !.is_closed = TRUE,
                                      !.booked_pnl = Fl(old.booked_pnl + old.open_pnl),
                                      !.open_pnl = 0]
            IN  /\ positions' = Remove(positions, sym)
                /\ ledger' = ExitCash(ledger, margin_freed, old.open_pnl)
                /\ positions_closed' = PushClosed(positions_closed, sym, closed)
                /\ ledger_last' = Last("exit", "Ok")
                /\ UNCHANGED positions_counter

\* The loop of Ledger::on_data_update over the data of a time slice, from index i on.
\* A position that update_base_data closed is to be taken out of the map while the
\* loop still holds the map's write guard on that position (get_mut): the remove
\* waits for the guard for ever, and the loop ends there (blocked).
RECURSIVE DataUpdateLoop(_, _, _)
DataUpdateLoop(slice, i, acc) ==
    IF i > Len(slice) THEN acc
    ELSE LET data == slice[i]
             sym == data.symbol
         IN  IF ~Has(acc.positions, sym) THEN DataUpdateLoop(slice, i + 1, acc)
             ELSE LET upd == update_base_data(acc.positions[sym], data)
                      pos == upd.position
                      after == [positions |-> [acc.positions EXCEPT ![sym] = pos],
                                open_pnl |-> Fl(acc.open_pnl + pos.open_pnl),
                                booked_pnl |-> Fl(acc.booked_pnl + upd.booked),
                                blocked |-> pos.is_closed]
                  IN  IF pos.is_closed THEN after
                      ELSE DataUpdateLoop(slice, i + 1, after)

\* Ledger::on_data_update
OnDataUpdate(time_slice) ==
    /\ LedgerReady
    /\ UNCHANGED notLedger
    /\ ledger_ops' = ledger_ops + 1
    /\ LET done == DataUpdateLoop(time_slice, 1,
                       [positions |-> positions, open_pnl |-> 0, booked_pnl |-> 0,
                        blocked |-> FALSE])
       IN  /\ positions' = done.positions
           /\ IF done.blocked
              THEN /\ ledger_last' = Last("data", "blocked")
                   /\ UNCHANGED ledger
              ELSE /\ ledger_last' = Last("data", "Ok")
                   /\ ledger' = [ledger EXCEPT
                                   !.open_pnl = done.open_pnl,
                                   !.booked_pnl = Fl(ledger.booked_pnl + done.booked_pnl)]
           /\ UNCHANGED <<positions_closed, positions_counter>>

NextLedger ==
    \/ \E sym \in LedgerSymbols, q \in Quantities, p \in Prices, side \in {"Buy", "Sell"},
          b \in BracketChoices : UpdateOrCreatePaperPosition(sym, q, p, side, b)
    \/ \E sym \in LedgerSymbols : ExitPositionPaper(sym)
    \/ \E ts \in TimeSlices : OnDataUpdate(ts)

\* the number of price updates given to one position
MaxPositionUpdates == 4

\* The positions followed under price updates: one contract, long or short, with a
\* StopLoss as its only bracket.
StopLossPositions ==
    {enter(sym, side, 1, entry, 1, <<[kind |-> "StopLoss", price |-> stop]>>) :
        sym \in LedgerSymbols, side \in {"Long", "Short"}, entry \in Prices, stop \in Prices}

\* The position of the parts that follow none.
PositionIdle == enter("EUR-USD", "Long", 1, 1, 1, None)

InitPosition(entered) ==
    /\ position \in entered
    /\ position_updates = <<>>
    /\ position_closed_at = 0
    /\ position_at_close = None

\* Position::update_base_data on the position followed.
PositionUpdate(data) ==
    /\ UNCHANGED notPosition
    /\ Len(position_updates) < MaxPositionUpdates
    /\ LET after == update_base_data(position, data).position
           closes == ~position.is_closed /\ after.is_closed
       IN  /\ position' = after
           /\ position_updates' = Append(position_updates, MarketPriceOf(position.side, data))
           /\ position_closed_at' = IF closes THEN Len(position_updates) + 1
                                    ELSE position_closed_at
           /\ position_at_close' = IF closes THEN after ELSE position_at_close

NextPosition == \E data \in BaseDataInputs : PositionUpdate(data)

\* The updates whose market price is at or beyond the stop of the position
\* followed: at or below it for a long, at or above it for a short.
StopTouched ==
    {i \in DOMAIN position_updates :
        IF position.side = "Long" THEN position_updates[i] <= position.brackets[1].price
        ELSE position_updates[i] >= position.brackets[1].price}

\* C20: a long position with a StopLoss at price p stays open across every price
\* update whose market price is above p and is closed by the first update whose
\* market price is at or below p (mirror image for a short); later updates
\* change nothing.
C20_StopLossClosesAtFirstTouch ==
    IF StopTouched = {}
    THEN ~position.is_closed /\ position_closed_at = 0
    ELSE /\ position.is_closed
         /\ position_closed_at \in StopTouched
         /\ \A i \in StopTouched : position_closed_at <= i
         /\ position = position_at_close

\* A long position stayed open over two updates above its stop, was closed by the
\* third, at or below the stop, and was given a fourth.
C20_Witness ==
    /\ position.side = "Long"
    /\ Len(position_updates) = 4
    /\ position_updates[1] > position.brackets[1].price
    /\ position_updates[2] > position.brackets[1].price
    /\ position_updates[3] <= position.brackets[1].price
    /\ position_updates[4] # position_updates[3]
    /\ position_closed_at = 3
    /\ position.is_closed

\* The positions followed for the trailing stop: one contract, long or short, with
\* a TrailingStopLoss of trail 1 as its only bracket.
TrailingStopPositions ==
    {enter(sym, side, 1, entry, 1,
           <<[kind |-> "TrailingStopLoss", price |-> stop, trail_value |-> 1]>>) :
        sym \in LedgerSymbols, side \in {"Long", "Short"}, entry \in Prices, stop \in Prices}

\* The stop level of the position followed once the first i updates have moved it:
\* the configured price, or the most favourable market price so far less the trail
\* (plus the trail for a short) where that is closer to the market.
TrailedStop(i) ==
    LET bracket == position.brackets[1]
        levels == {bracket.price} \cup
                  {IF position.side = "Long" THEN position_updates[j] - bracket.trail_value
                   ELSE position_updates[j] + bracket.trail_value : j \in 1 .. i}
    IN  IF position.side = "Long"
        THEN CHOOSE m \in levels : \A x \in levels : x <= m
        ELSE CHOOSE m \in levels : \A x \in levels : m <= x

\* The updates whose market price is at or beyond the trailed stop.
TrailTouched ==
    {i \in DOMAIN position_updates :
        IF position.side = "Long" THEN position_updates[i] <= TrailedStop(i)
        ELSE position_updates[i] >= TrailedStop(i)}

\* C28: on each price update the stop of a TrailingStopLoss is first moved by its
\* trail after the most favourable price reached and then tested: the position is
\* closed by the first update whose market price is at or beyond the trailed stop.
C28_TrailingStopFollowsPrice ==
    IF TrailTouched = {}
    THEN ~position.is_closed
    ELSE /\ position.is_closed
         /\ position_closed_at \in TrailTouched
         /\ \A i \in TrailTouched : position_closed_at <= i

\* The price of a long position rose by more than the trail above the configured
\* stop and then fell back to the trailed level, still above the configured stop.
C28_Witness ==
    /\ position.side = "Long"
    /\ position.brackets[1].kind = "TrailingStopLoss"
    /\ Len(position_updates) = 2
    /\ position_updates[1] - position.brackets[1].trail_value > position.brackets[1].price
    /\ position_updates[2] <= position_updates[1] - position.brackets[1].trail_value
    /\ position_updates[2] > position.brackets[1].price

\* C2: after every update_or_create_paper_position, exit_position_paper and
\* on_data_update on a paper ledger, cash_value equals cash_available + cash_used.
C2_CashValueIsAvailablePlusUsed ==
    ledger.cash_value = Fl(ledger.cash_available + ledger.cash_used)

\* C5: cash_value always equals the initial cash plus the total booked pnl: no
\* operation changes cash_value by a margin amount.
C5_LedgerConservation ==
    ledger.cash_value = Fl(Money(InitialCash) + ledger.booked_pnl)

\* C8: an update_or_create_paper_position that fails for insufficient funds leaves
\* the cash fields, the open positions and the closed positions as they were.
C8_InsufficientFundsLeavesLedger ==
    [][(ledger_ops' # ledger_ops /\ ledger_last'.result = "InsufficientFunds")
          => UNCHANGED <<ledger, positions, positions_closed>>]_vars

(***************************************************************************)
(*                          HISTORICAL ARCHIVE                              *)
(* One symbol, resolution and data type.  Close-times are whole numbers;    *)
(* TimesPerDay consecutive close-times share a UTC day, hence a day file.   *)
(***************************************************************************)

\* the latest close-time of a record
MaxCloseTime == 4
\* the number of close-times in one UTC day
TimesPerDay == 3

CloseTimes == 1 .. MaxCloseTime
ArchivePayloads == {"a", "b"}

\* time_closed_utc().date_naive(): the UTC day of a close-time.
DayOf(t) == (t + TimesPerDay - 1) \div TimesPerDay

Days == {DayOf(t) : t \in CloseTimes}

BaseData(t, payload, closed) == [time_closed |-> t, payload |-> payload, is_closed |-> closed]

C(t, payload) == BaseData(t, payload, TRUE)
U(t, payload) == BaseData(t, payload, FALSE)

\* The batches handed to save_data_bulk.
Batches ==
    { <<>>,
      <<C(1, "a")>>, <<C(2, "b")>>, <<C(4, "a")>>,
      <<C(2, "a"), C(1, "a")>>,
      <<C(1, "b"), C(3, "b")>>,
      <<C(2, "a"), C(2, "b")>>,
      <<C(1, "a"), C(1, "b"), C(1, "a")>>,
      <<C(4, "b"), C(1, "b")>>,
      <<C(3, "b"), C(4, "a"), C(1, "a")>>,
      <<U(1, "b")>>,
      <<U(2, "a"), C(1, "b")>> }

PayloadByte(payload) == IF payload = "a" THEN 97 ELSE 98

\* One record as bytes: its length, then its close-time and its payload.
RecordBytes(d) == <<2, d.time_closed, PayloadByte(d.payload)>>

\* BaseDataEnum::vec_to_bytes: the records one after the other, each behind its length.
RECURSIVE vec_to_bytes(_)
vec_to_bytes(data) ==
    IF data = <<>> THEN <<>> ELSE RecordBytes(Head(data)) \o vec_to_bytes(Tail(data))

\* BaseDataEnum::from_array_bytes: read a length, then a record of that length, to
\* the end of the bytes.  Every record read from a day file is closed.
RECURSIVE from_array_bytes(_)
from_array_bytes(bytes) ==
    IF bytes = <<>> THEN <<>>
    ELSE LET n == bytes[1]
             body == SubSeq(bytes, 2, 1 + n)
             d == C(body[1], IF body[2] = 97 THEN "a" ELSE "b")
         IN  <<d>> \o from_array_bytes(SubSeq(bytes, 2 + n, Len(bytes)))

\* BaseDataEnum::from_array_bytes returns Ok: the bytes are whole records, each
\* behind its length.
RECURSIVE Parses(_)
Parses(bytes) ==
    IF bytes = <<>> THEN TRUE
    ELSE /\ Len(bytes) >= 1 + bytes[1]
         /\ bytes[1] = 2
         /\ Parses(SubSeq(bytes, 2 + bytes[1], Len(bytes)))

\* An insert that keeps the record a close-time already has.
RECURSIVE InsertAllKeepFirst(_, _)
InsertAllKeepFirst(data_map, data) ==
    IF data = <<>> THEN data_map
    ELSE InsertAllKeepFirst(
             IF Has(data_map, Head(data).time_closed) THEN data_map
             ELSE Insert(data_map, Head(data).time_closed, Head(data)),
             Tail(data))

\* BTreeMap<DateTime<Utc>, BaseDataEnum>: insert the data in order, a later record
\* replacing an earlier one with the same close-time.
RECURSIVE InsertAll(_, _)
InsertAll(data_map, data) ==
    IF data = <<>> THEN data_map
    ELSE InsertAll(Insert(data_map, Head(data).time_closed, Head(data)), Tail(data))

\* BTreeMap::into_values: the values in ascending key order.
RECURSIVE into_values(_)
into_values(data_map) ==
    IF DOMAIN data_map = {} THEN <<>>
    ELSE LET k == CHOOSE x \in DOMAIN data_map : \A y \in DOMAIN data_map : x <= y
         IN  <<data_map[k]>> \o into_values(Remove(data_map, k))

\* HybridStorage::save_data_to_file: the bytes of the file afterwards.
save_data_to_file(existing_data, new_data) ==
    LET data_map == IF existing_data # <<>>
                    THEN InsertAll(EmptyMap, from_array_bytes(existing_data))
                    ELSE EmptyMap
        all_data == into_values(InsertAll(data_map, new_data))
    IN  vec_to_bytes(all_data)

\* The group of a batch that save_data_bulk hands to the file of a day.
GroupOf(data, day) ==
    SelectSeq(data, LAMBDA d : d.is_closed /\ DayOf(d.time_closed) = day)

\* The records a day file holds.
FileRecords(day) == from_array_bytes(files[day])

Times(data) == {data[i].time_closed : i \in DOMAIN data}

\* The last record of a batch with close-time t.
LastAt(data, t) ==
    data[CHOOSE i \in DOMAIN data :
           /\ data[i].time_closed = t
           /\ \A j \in DOMAIN data : data[j].time_closed = t => j <= i]

RECURSIVE Ascending(_)
Ascending(ts) ==
    IF ts = {} THEN <<>>
    ELSE LET m == CHOOSE t \in ts : \A u \in ts : t <= u
         IN  <<m>> \o Ascending(ts \ {m})

\* The batch sorted by close-time with one record per close-time, the last one.
ExpectedOf(data) ==
    [i \in 1 .. Cardinality(Times(data)) |-> LastAt(data, Ascending(Times(data))[i])]

MinTime(data) == CHOOSE t \in Times(data) : \A u \in Times(data) : t <= u
MaxTime(data) == CHOOSE t \in Times(data) : \A u \in Times(data) : t >= u

NoRange == [valid |-> FALSE, start |-> 0, end |-> 0, result |-> <<>>, panicked |-> FALSE]

InitArchive ==
    /\ files = [day \in Days |-> <<>>]
    /\ mmap_cache = {}
    /\ cache_is_updated = {}
    /\ cache_last_accessed = {}
    /\ saved_latest = [t \in CloseTimes |-> "none"]
    /\ archive_last = [op |-> "init", overwrote |-> FALSE, retained |-> FALSE]
    /\ round_trip = [applies |-> FALSE, fresh |-> FALSE, data |-> <<>>]
    /\ last_range = NoRange

\* HybridStorage::save_data_bulk
SaveDataBulk(data) ==
    /\ UNCHANGED notArchive
    /\ LET written == {day \in Days : GroupOf(data, day) # <<>>}
           closed == SelectSeq(data, LAMBDA d : d.is_closed)
           held == UNION {Times(FileRecords(day)) : day \in {x \in Days : Parses(files[x])}}
       IN  /\ files' = [day \in Days |->
                          IF day \in written
                          THEN save_data_to_file(files[day], GroupOf(data, day))
                          ELSE files[day]]
           /\ mmap_cache' = mmap_cache \cup written
           /\ cache_is_updated' = cache_is_updated \cup written
           /\ UNCHANGED cache_last_accessed
           /\ saved_latest' = [t \in CloseTimes |->
                                 IF t \in Times(closed) THEN LastAt(closed, t).payload
                                 ELSE saved_latest[t]]
           /\ archive_last' =
                 [op |-> "save",
                  overwrote |-> \E t \in Times(closed) :
                                   saved_latest[t] \notin {"none", LastAt(closed, t).payload},
                  retained |-> \E t \in CloseTimes \ Times(closed) :
                                   /\ DayOf(t) \in written
                                   /\ saved_latest[t] # "none"]
           /\ round_trip' =
                 [applies |-> /\ data # <<>>
                              /\ closed = data
                              /\ Cardinality({DayOf(t) : t \in Times(data)}) = 1,
                  fresh |-> \A t \in held \ Times(data) :
                               \/ data = <<>>
                               \/ t < MinTime(data)
                               \/ t > MaxTime(data),
                  data |-> data]
           /\ last_range' = NoRange

\* HybridStorage::get_or_create_mmap succeeds for a day: its file is mapped already,
\* or it can be opened and mapped (it exists and is not empty).
Mappable(day) == day \in mmap_cache \/ files[day] # <<>>

\* A filter that leaves out the end of the range.
InRangeExclusive(t, start, end) == t >= start /\ t < end

\* The filter of get_data_range on the close-time of a record.
InRange(t, start, end) == t >= start /\ t <= end

\* The walk of get_data_range over the days from day to last_day: the records of
\* each day file that can be mapped, filtered to the range, one day after the other.
RECURSIVE RangeLoop(_, _, _, _)
RangeLoop(day, last_day, start, end) ==
    IF day > last_day THEN <<>>
    ELSE LET day_data == IF Mappable(day) THEN FileRecords(day) ELSE <<>>
         IN  SelectSeq(day_data, LAMBDA d : InRange(d.time_closed, start, end))
                 \o RangeLoop(day + 1, last_day, start, end)

\* HybridStorage::get_data_range.  The walk stops with a panic at the first day
\* whose mapped bytes from_array_bytes cannot parse (the unwrap of its result).
GetDataRange(start, end) ==
    /\ UNCHANGED notArchive
    /\ LET walked == {day \in Days : DayOf(start) <= day /\ day <= DayOf(end)}
           mapped == {day \in walked : Mappable(day)}
           bad == {day \in mapped : ~Parses(files[day])}
           read == {day \in mapped : \A b \in bad : day <= b}
       IN  /\ mmap_cache' = mmap_cache \cup read
           /\ cache_last_accessed' = cache_last_accessed \cup read
           /\ cache_is_updated' = cache_is_updated \ (read \ mmap_cache)
           /\ last_range' =
                 IF bad = {}
                 THEN [valid |-> TRUE, start |-> start, end |-> end,
                       result |-> RangeLoop(DayOf(start), DayOf(end), start, end),
                       panicked |-> FALSE]
                 ELSE [valid |-> TRUE, start |-> start, end |-> end, result |-> <<>>,
                       panicked |-> TRUE]
           /\ UNCHANGED <<files, saved_latest, archive_last, round_trip>>

\* One tick of the task of HybridStorage::start_cache_management.  The days in
\* expired were last read longer ago than clear_cache_duration.  A mapping marked
\* updated is written to its file, which holds the same bytes already.
CacheManagement(expired) ==
    /\ UNCHANGED notArchive
    /\ LET removed == (mmap_cache \ cache_last_accessed) \cup expired
           kept == mmap_cache \ removed
       IN  /\ mmap_cache' = kept
           /\ cache_last_accessed' = cache_last_accessed \cap kept
           /\ cache_is_updated' = cache_is_updated \cap kept
           /\ UNCHANGED <<files, saved_latest, archive_last, round_trip, last_range>>

\* The mappings that one tick of the cache management task hands to
\* save_mmap_to_disk: those with a last access time that expired and whose
\* cache_is_updated flag is true.
SavedMmaps(expired) == expired \cap cache_is_updated

\* HybridStorage::save_data of a closed record.  If the bytes of the day file
\* do not parse, save_data_to_file returns the InvalidData error before it writes.
SaveData(d) ==
    /\ UNCHANGED notArchive
    /\ LET day == DayOf(d.time_closed)
       IN  IF Parses(files[day])
           THEN /\ files' = [files EXCEPT ![day] = save_data_to_file(files[day], <<d>>)]
                /\ mmap_cache' = mmap_cache \cup {day}
                /\ cache_is_updated' = cache_is_updated \cup {day}
                /\ archive_last' = [op |-> "save_data", overwrote |-> FALSE,
                                    retained |-> FALSE]
           ELSE /\ archive_last' = [op |-> "save_failed", overwrote |-> FALSE,
                                    retained |-> FALSE]
                /\ UNCHANGED <<files, mmap_cache, cache_is_updated>>
    /\ last_range' = NoRange
    /\ UNCHANGED <<cache_last_accessed, saved_latest, round_trip>>

\* What the rewrite of save_data_to_file (seek, set_len(0), write_all) leaves in
\* the file when it stops: the prior bytes before set_len, then any prefix of
\* the new bytes, the empty one and the whole included.
RewriteOutcomes(prior, bytes) ==
    {prior} \cup {SubSeq(bytes, 1, k) : k \in 0 .. Len(bytes)}

\* HybridStorage::save_data of a closed record, the write failing or the process
\* stopping inside the rewrite of the day file; the process starts again with
\* nothing mapped.
SaveDataInterrupted(d, k) ==
    /\ UNCHANGED notArchive
    /\ Parses(files[DayOf(d.time_closed)])
    /\ LET day == DayOf(d.time_closed)
           bytes == save_data_to_file(files[day], <<d>>)
           left == IF k > Len(bytes) THEN files[day] ELSE SubSeq(bytes, 1, k)
       IN  /\ left \in RewriteOutcomes(files[day], bytes)
           /\ left # bytes
           /\ files' = [files EXCEPT ![day] = left]
           /\ archive_last' = [op |-> "interrupted", overwrote |-> FALSE,
                               retained |-> FALSE, day |-> day,
                               holds |-> IF left = files[day] THEN "prior"
                                         ELSE IF left = <<>> THEN "empty"
                                         ELSE "truncated"]
    /\ mmap_cache' = {}
    /\ cache_is_updated' = {}
    /\ cache_last_accessed' = {}
    /\ last_range' = NoRange
    /\ UNCHANGED <<saved_latest, round_trip>>

\* The records handed to save_data: one at every close-time.
ClosedRecords == {C(t, "a") : t \in CloseTimes}

\* the bytes of a full day file, and one more for a rewrite that stops before set_len
MaxFileBytes == 3 * TimesPerDay

NextArchiveFaults ==
    \/ \E d \in ClosedRecords : SaveData(d)
    \/ \E d \in ClosedRecords, k \in 0 .. (MaxFileBytes + 1) : SaveDataInterrupted(d, k)
    \/ \E start \in CloseTimes, end \in CloseTimes : GetDataRange(start, end)

NextArchive ==
    \/ \E data \in Batches : SaveDataBulk(data)
    \/ \E start \in CloseTimes, end \in CloseTimes : GetDataRange(start, end)
    \/ \E expired \in SUBSET (mmap_cache \cap cache_last_accessed) : CacheManagement(expired)

\* C40: whenever the cache management loop drops a mapping whose
\* cache_is_updated flag is true, it has handed that mapping to
\* save_mmap_to_disk first; this includes the mappings that a save inserted and
\* that were never read afterwards.
C40_DirtyEntriesWrittenBeforeDrop ==
    [][\A expired \in SUBSET (mmap_cache \cap cache_last_accessed) :
          CacheManagement(expired) =>
              ((mmap_cache \ mmap_cache') \cap cache_is_updated)
                  \subseteq SavedMmaps(expired)]_vars

\* The last save wrote a day file and inserted its mapping marked updated,
\* nothing was read since, and the cache management loop has emptied the cache.
C40_Witness ==
    /\ archive_last.op = "save"
    /\ round_trip.data # <<>>
    /\ last_range = NoRange
    /\ mmap_cache = {}
    /\ cache_is_updated = {}

\* C9: after any saves, every day file holds one record per close-time, that of
\* the latest save holding the close-time, in ascending order of close-time;
\* the records of earlier saves at other close-times are still there.
C9_DayFileLastWriteWins ==
    \A day \in Days :
        LET recs == FileRecords(day)
        IN  /\ \A i \in DOMAIN recs : \A j \in DOMAIN recs :
                   i < j => recs[i].time_closed < recs[j].time_closed
            /\ \A t \in CloseTimes : DayOf(t) = day =>
                   IF saved_latest[t] = "none" THEN t \notin Times(recs)
                   ELSE \E i \in DOMAIN recs : recs[i] = C(t, saved_latest[t])

\* A save replaced the record of an earlier save and kept another one.
C9_Witness ==
    archive_last.op = "save" /\ archive_last.overwrote /\ archive_last.retained

\* A read of [min close-time, max close-time] of the batch of the latest save, the
\* batch being closed records of one day.
RoundTripRead ==
    /\ last_range.valid
    /\ round_trip.applies
    /\ last_range.start = MinTime(round_trip.data)
    /\ last_range.end = MaxTime(round_trip.data)

\* C3 as stated: saving a batch of closed records of one day and reading the range
\* from its least to its greatest close-time returns the batch sorted by
\* close-time, one record per close-time.
C3_RoundTripAnyArchive ==
    RoundTripRead => last_range.result = ExpectedOf(round_trip.data)

\* C3 amended: the same, where the archive held no record in that range at a
\* close-time the batch does not hold.
C3_RoundTripFreshRange ==
    (RoundTripRead /\ round_trip.fresh) => last_range.result = ExpectedOf(round_trip.data)

\* A round trip of a batch that is not sorted or holds a close-time twice.
C3_Witness ==
    /\ RoundTripRead
    /\ round_trip.fresh
    /\ round_trip.data # ExpectedOf(round_trip.data)

(***************************************************************************)
(*                    REQUEST HANDLER (callbacks)                           *)
(* One task takes the strategy's requests; for every message read from a    *)
(* server socket a task of its own is spawned, so the response tasks run    *)
(* in any order.                                                            *)
(***************************************************************************)

\* the number of CallBack requests explored
MaxCallbacks == 3
\* the number of responses read whose tasks have not run yet
MaxIncoming == 2
\* the number of responses without a callback id explored
MaxEvents == 1

\* The ids a server may put in a response: those of the requests, and one more.
ResponseIds == 1 .. (MaxCallbacks + 1)

NoId == 0

InitCallbacks ==
    /\ callback_id_counter = 0
    /\ callbacks = EmptyMap
    /\ incoming = [id \in ResponseIds \cup {NoId} |-> 0]
    /\ issued = <<>>
    /\ requested = <<>>
    /\ received = <<>>
    /\ dropped = {}
    /\ event_buffer = 0
    /\ callback_last = [id |-> NoId, outstanding |-> FALSE, sent_to |-> 0]

\* A counter that is not advanced.
CallbackIdReused(counter) == counter

\* callback_id_counter += 1
NextCallbackId(counter) == counter + 1

\* The functions of the strategy side that send a CallBack request and await
\* its oneshot.
RequestFunctions == {"tick_size", "decimal_accuracy", "get_exchange_rate"}

\* Those that await the oneshot under timeout(TIME_OUT, receiver).
TimedRequests == {"tick_size", "decimal_accuracy"}

\* request_handler, StrategyRequest::CallBack sent by function: the oneshot of
\* the request is the next one, Len(issued) + 1.
CallBack(function) ==
    /\ UNCHANGED notCallbacks
    /\ Len(issued) < MaxCallbacks
    /\ LET id == NextCallbackId(callback_id_counter)
           oneshot == Len(issued) + 1
       IN  /\ callback_id_counter' = id
           /\ callbacks' = Insert(callbacks, id, oneshot)
           /\ issued' = Append(issued, id)
           /\ requested' = Append(requested, function)
           /\ received' = Append(received, <<>>)
    /\ UNCHANGED <<incoming, dropped, event_buffer, callback_last>>

\* The caller of a callback request stops waiting (timeout) and drops the receiver.
ReceiverDropped(oneshot) ==
    /\ UNCHANGED notCallbacks
    /\ oneshot \in DOMAIN issued
    /\ requested[oneshot] \in TimedRequests
    /\ oneshot \notin dropped
    /\ received[oneshot] = <<>>
    /\ dropped' = dropped \cup {oneshot}
    /\ UNCHANGED <<callback_id_counter, callbacks, incoming, issued, requested, received,
                   event_buffer, callback_last>>

RECURSIVE SumIncoming(_)
SumIncoming(ids) ==
    IF ids = {} THEN 0
    ELSE LET id == CHOOSE x \in ids : TRUE
         IN  incoming[id] + SumIncoming(ids \ {id})

\* The read loop of a connection reads a message and spawns its task.
ResponseRead(id) ==
    /\ UNCHANGED notCallbacks
    /\ SumIncoming(DOMAIN incoming) < MaxIncoming
    /\ id = NoId => event_buffer + incoming[NoId] < MaxEvents
    /\ incoming' = [incoming EXCEPT ![id] = @ + 1]
    /\ UNCHANGED <<callback_id_counter, callbacks, issued, requested, received, dropped,
                   event_buffer, callback_last>>

\* The task of a response: without an id the response goes to the event buffer;
\* with one, the oneshot under the id is taken out of callbacks and the response
\* is sent through it (the send fails if the receiver was dropped).
ResponseTask(id) ==
    /\ UNCHANGED notCallbacks
    /\ incoming[id] > 0
    /\ incoming' = [incoming EXCEPT ![id] = @ - 1]
    /\ IF id = NoId
       THEN /\ event_buffer' = event_buffer + 1
            /\ callback_last' = [id |-> NoId, outstanding |-> FALSE, sent_to |-> 0]
            /\ UNCHANGED <<callbacks, received>>
       ELSE IF Has(callbacks, id)
            THEN LET oneshot == callbacks[id]
                 IN  /\ callbacks' = Remove(callbacks, id)
                     /\ received' = IF oneshot \in dropped THEN received
                                    ELSE [received EXCEPT ![oneshot] = Append(@, id)]
                     /\ callback_last' = [id |-> id, outstanding |-> TRUE,
                                          sent_to |-> IF oneshot \in dropped THEN 0
                                                      ELSE oneshot]
                     /\ UNCHANGED event_buffer
            ELSE /\ callback_last' = [id |-> id, outstanding |-> FALSE, sent_to |-> 0]
                 /\ UNCHANGED <<callbacks, received, event_buffer>>
    /\ UNCHANGED <<callback_id_counter, issued, requested, dropped>>

\* The strategy takes the event slices sent to it off its channel.
StrategyEventsReceived ==
    /\ UNCHANGED notCallbacks
    /\ event_buffer > 0
    /\ event_buffer' = 0
    /\ UNCHANGED <<callback_id_counter, callbacks, incoming, issued, requested, received,
                   dropped, callback_last>>

NextCallbacks ==
    \/ CallBack("tick_size")
    \/ \E oneshot \in 1 .. MaxCallbacks : ReceiverDropped(oneshot)
    \/ \E id \in ResponseIds \cup {NoId} : ResponseRead(id)
    \/ \E id \in ResponseIds \cup {NoId} : ResponseTask(id)
    \/ StrategyEventsReceived

NextRequests ==
    \/ \E function \in RequestFunctions : CallBack(function)
    \/ \E oneshot \in 1 .. MaxCallbacks : ReceiverDropped(oneshot)
    \/ \E id \in ResponseIds \cup {NoId} : ResponseRead(id)
    \/ \E id \in ResponseIds \cup {NoId} : ResponseTask(id)
    \/ StrategyEventsReceived

\* The timer of timeout(TIME_OUT, receiver) fires, a spawned response task runs,
\* the strategy takes its events, and the server keeps streaming data updates.
RequestFairness ==
    /\ \A oneshot \in 1 .. MaxCallbacks : WF_vars(ReceiverDropped(oneshot))
    /\ \A id \in ResponseIds \cup {NoId} : WF_vars(ResponseTask(id))
    /\ WF_vars(StrategyEventsReceived)
    /\ WF_vars(ResponseRead(NoId))

\* The function that awaits the oneshot has returned, with the response or with
\* the timeout error.
Returned(oneshot) ==
    oneshot \in DOMAIN issued /\ (received[oneshot] # <<>> \/ oneshot \in dropped)

\* C4: the ids handed out are pairwise distinct; a response with id k is sent only
\* through the oneshot registered under k, at most once; a response whose id
\* matches no outstanding request is sent to no caller.
C4_CallbackRouting ==
    /\ \A m \in DOMAIN issued : \A n \in DOMAIN issued : m # n => issued[m] # issued[n]
    /\ \A n \in DOMAIN received :
          /\ Len(received[n]) <= 1
          /\ \A i \in DOMAIN received[n] : received[n][i] = issued[n]
    /\ ~callback_last.outstanding => callback_last.sent_to = 0

\* Two requests are out, the second was answered, and a response with an id that
\* matches no outstanding request was dropped.
C4_Witness ==
    /\ Len(issued) >= 2
    /\ received[2] = <<issued[2]>>
    /\ callback_last.id # NoId
    /\ ~callback_last.outstanding

\* The position of a symbol after a reducing fill: still open, or the last of the
\* closed positions of the symbol.
ReducedPosition(sym) ==
    IF sym \in DOMAIN positions' THEN positions'[sym]
    ELSE positions_closed'[sym][Len(positions_closed'[sym])]

\* A step that is a reducing fill of no more contracts than the position of sym holds.
ReducingFill(sym) ==
    /\ ledger_ops' # ledger_ops
    /\ ledger_last'.op = "reduce"
    /\ ledger_last'.result = "Ok"
    /\ sym \in DOMAIN positions
    /\ ledger_last'.quantity <= positions[sym].quantity

\* C16: a reducing fill of closed_qty contracts increases cash_available by the
\* booked pnl plus margin_required(symbol, closed_qty) and decreases cash_used by
\* margin_required(symbol, closed_qty) (from cash 100000 at margin 100 per
\* contract, buying 2 and selling 1 with a booked pnl of 50 leaves 99950 available).
C16_ReducingFillReleasesMargin ==
    [][\A sym \in LedgerSymbols : ReducingFill(sym) =>
          LET pnl == ReducedPosition(sym).booked_pnl
              margin == margin_required_historical(ledger_last'.quantity)
          IN  /\ ledger'.cash_available \in {Fl(Fl(ledger.cash_available + pnl) + margin),
                                             Fl(ledger.cash_available + Fl(pnl + margin))}
              /\ ledger'.cash_used = Fl(ledger.cash_used - margin)]_vars

\* Two contracts were bought and one of them sold: the margin of one contract is
\* still in use, and less than the initial cash minus that margin is available.
C16_Witness ==
    /\ ledger_last.op = "reduce"
    /\ ledger_last.result = "Ok"
    /\ ledger_last.quantity = 1
    /\ "EUR-USD" \in DOMAIN positions
    /\ positions["EUR-USD"].quantity = 1
    /\ ledger.cash_used = Money(MarginPerContract)
    /\ ledger.cash_available + Money(MarginPerContract) < Money(InitialCash) - Money(MarginPerContract)

\* C17: the pnl booked when closed_qty contracts of a position are closed at price
\* p is (p - average_price for a long, average_price - p for a short)
\* * value_per_tick * closed_qty / tick_size: the price move in ticks times
\* value_per_tick times the closed quantity.  Stated for an average price that is
\* a whole number of ticks.
C17_BookedPnlInTicks ==
    [][\A sym \in LedgerSymbols : (ReducingFill(sym) /\ positions[sym].avg_den = 1) =>
          LET old == positions[sym]
              ticks == IF old.side = "Long" THEN ledger_last'.price - old.avg_num
                       ELSE old.avg_num - ledger_last'.price
          IN  ReducedPosition(sym).booked_pnl
                  = Fl(Money(ticks * ValuePerTick * ledger_last'.quantity))]_vars

\* A reducing fill closed a contract two ticks above the entry of a long position.
C17_Witness ==
    /\ ledger_last.op = "reduce"
    /\ ledger_last.result = "Ok"
    /\ "EUR-USD" \in DOMAIN positions_closed
    /\ \E i \in DOMAIN positions_closed["EUR-USD"] :
          LET pos == positions_closed["EUR-USD"][i]
          IN  pos.side = "Long" /\ pos.avg_num = 1 /\ pos.avg_den = 1
                  /\ ledger_last.price = 3 /\ pos.booked_pnl = 2 * ValuePerTick

\* C18: after any sequence of paper-ledger operations, a reducing order whose
\* quantity exceeds the open position's quantity included, cash_used is never
\* negative.
C18_CashUsedNeverNegative ==
    ledger.cash_used >= 0

\* A reducing order for more contracts than the position held went through and
\* took more margin out of cash_used than was in it.
C18_Witness ==
    /\ ledger_last.op = "reduce"
    /\ ledger_last.result = "Ok"
    /\ ledger.cash_used < 0
    /\ \E sym \in DOMAIN positions : positions[sym].quantity < 0

\* C19: when a price update fires a bracket on an open position, on_data_update
\* returns with that position removed from the open positions and appended to
\* closed_positions.
C19_BracketCloseMovesPosition ==
    ledger_last.op = "data"
    => /\ ledger_last.result = "Ok"
       /\ \A sym \in DOMAIN positions : ~positions[sym].is_closed

\* on_data_update closed a position by its bracket and waits for the map: the
\* closed position is still among the open positions and in no closed list.
C19_Witness ==
    /\ ledger_last = Last("data", "blocked")
    /\ \E sym \in DOMAIN positions :
          /\ positions[sym].is_closed
          /\ sym \notin DOMAIN positions_closed

\* C15: whenever data_feed_subscribe answers with success = false, the call
\* leaves behind no broadcaster that it created and no (stream, subscription)
\* receiver registration that it made.
C15_FailedSubscribeLeavesNothing ==
    (last_call.op = "subscribe" /\ ~last_call.success)
    => /\ last_call.has_broadcaster => last_call.had_broadcaster
       /\ last_call.count_after <= last_call.count_before

\* A subscribe answered success = false and left the broadcaster it created and
\* the receiver it registered.
C15_Witness ==
    /\ last_call.op = "subscribe"
    /\ ~last_call.success
    /\ ~last_call.had_broadcaster
    /\ broadcaster_exists(last_call.key)
    /\ receiver_count(last_call.key) > last_call.count_before

\* Oanda: the number of symbols that hold a quote broadcaster.
OandaQuoteSymbols == Cardinality(quote_feed_broadcasters) + other_quote_keys

\* C23: after any sequence of Oanda subscribes, the number of symbols with a quote
\* broadcaster never exceeds 20.
C23_OandaCapHolds ==
    vendor = "Oanda" => OandaQuoteSymbols <= OandaMaxSubscriptions

\* The subscribe for the symbol that reaches the cap was rejected.
C23_Witness ==
    /\ vendor = "Oanda"
    /\ last_call.op = "subscribe"
    /\ ~last_call.success
    /\ ~last_call.had_broadcaster
    /\ OandaQuoteSymbols = OandaMaxSubscriptions

\* The days a range read walks.
WalkedDays(range) == {day \in Days : DayOf(range.start) <= day /\ day <= DayOf(range.end)}

\* The records of the day files from day to last_day that parse, filtered to the
\* range; a day file that does not parse contributes none.
RECURSIVE ParsableRange(_, _, _, _)
ParsableRange(day, last_day, start, end) ==
    IF day > last_day THEN <<>>
    ELSE LET day_data == IF Parses(files[day]) THEN FileRecords(day) ELSE <<>>
         IN  SelectSeq(day_data, LAMBDA d : InRange(d.time_closed, start, end))
                 \o ParsableRange(day + 1, last_day, start, end)

\* C13: a range read over several days in which one day file cannot be parsed
\* does not panic and does not fail: that day contributes no records and the
\* records of the other days in the range are returned.
C13_UnparsableDaySkipped ==
    (/\ last_range.valid
     /\ Cardinality(WalkedDays(last_range)) > 1
     /\ \E day \in WalkedDays(last_range) : ~Parses(files[day]))
    => /\ ~last_range.panicked
       /\ last_range.result = ParsableRange(DayOf(last_range.start), DayOf(last_range.end),
                                            last_range.start, last_range.end)

\* A read over two days panicked: the file of one does not parse, the file of
\* the other holds a record of the range.
C13_Witness ==
    /\ last_range.valid
    /\ last_range.panicked
    /\ Cardinality(WalkedDays(last_range)) > 1
    /\ \E day \in WalkedDays(last_range) :
           /\ Parses(files[day])
           /\ \E i \in DOMAIN FileRecords(day) :
                  InRange(FileRecords(day)[i].time_closed, last_range.start, last_range.end)

\* C14: if a save to a day file fails or the process stops at any point inside
\* the rewrite, the day file still holds its complete prior contents or the
\* complete new contents, never an empty or truncated file.
C14_RewriteKeepsContents ==
    archive_last.op = "interrupted"
    => /\ archive_last.holds \in {"prior", "complete"}
       /\ Parses(files[archive_last.day])

\* A rewrite of a day file that held a record stopped and left the file empty.
C14_Witness ==
    /\ archive_last.op = "interrupted"
    /\ archive_last.holds = "empty"
    /\ files[archive_last.day] = <<>>

\* C12: every callback-bearing request issued from the strategy side (tick_size,
\* decimal_accuracy and get_exchange_rate included) returns to its caller with the
\* response or a timeout error, even if the server never answers.
C12_RequestsReturn ==
    \A oneshot \in 1 .. MaxCallbacks :
        [](oneshot \in DOMAIN issued => <>Returned(oneshot))

\* A get_exchange_rate awaits its oneshot while a tick_size issued after it has
\* returned with the timeout error.
C12_Witness ==
    /\ Len(issued) >= 2
    /\ requested[1] = "get_exchange_rate"
    /\ requested[2] = "tick_size"
    /\ ~Returned(1)
    /\ 2 \in dropped

\* C24: when a callback request times out, its entry is removed from the callbacks
\* map: the map holds the id of no request that is no longer awaited.
C24_TimedOutEntryRemoved ==
    \A oneshot \in dropped : ~Has(callbacks, issued[oneshot])

\* A request timed out before any response with its id was handled.
C24_Witness ==
    \E oneshot \in dropped : received[oneshot] = <<>> /\ incoming[issued[oneshot]] = 0

(***************************************************************************)
(*                        SUBSCRIPTION HANDLER                              *)
(* The subscriptions of one strategy to one symbol, and to fundamentals.    *)
(* The history windows the handler keeps per subscription are left out.     *)
(***************************************************************************)

\* SubscriptionResolutionType of a subscription
subscription_resolution_type(sub) == <<sub.resolution, sub.base_data_type>>

\* The order of Resolution: Instant < Ticks(1) < Seconds(1) < Seconds(5) < Minutes(1).
ResolutionRank(res) ==
    CASE res = "Instant"  -> 0
      [] res = "Ticks1"   -> 1
      [] res = "Seconds1" -> 2
      [] res = "Seconds5" -> 3
      [] res = "Minutes1" -> 4

\* What resolutions_response and base_data_types_response of the vendors answer,
\* in the mode of the strategy.
RithmicBacktest ==
    [mode |-> "Backtest", resolutions |-> {<<"Ticks1", "Ticks">>},
     data_types |-> {"Ticks", "Quotes", "Candles"}]

RithmicLive ==
    [mode |-> "Live",
     resolutions |-> {<<"Ticks1", "Ticks">>, <<"Instant", "Quotes">>,
                      <<"Seconds1", "Candles">>},
     data_types |-> {"Ticks", "Quotes", "Candles"}]

OandaBacktest ==
    [mode |-> "Backtest", resolutions |-> {<<"Seconds5", "QuoteBars">>},
     data_types |-> {"QuoteBars"}]

OandaLive ==
    [mode |-> "Live", resolutions |-> {<<"Instant", "Quotes">>},
     data_types |-> {"QuoteBars"}]

VendorSettings == {RithmicBacktest, RithmicLive, OandaBacktest, OandaLive}

\* The subscriptions the strategy asks for.
StrategySubscriptions ==
    { Sub("ES", "Ticks1", "Ticks"),
      Sub("ES", "Instant", "Quotes"),
      Sub("ES", "Seconds1", "Candles"),
      Sub("ES", "Minutes1", "Candles"),
      Sub("ES", "Seconds5", "QuoteBars"),
      Sub("ES", "Minutes1", "QuoteBars"),
      Sub("ES", "Instant", "Fundamentals") }

vendor_primary_resolutions == vendor_settings.resolutions
vendor_data_types == vendor_settings.data_types

SubsResult(ok, primary, secondary) == [ok |-> ok, primary |-> primary, secondary |-> secondary]

\* The Ticks and Quotes branches of SymbolSubscriptionHandler::subscribe.
SubscribeDirect(sub, needed, primary, secondary) ==
    LET sub_res_type == subscription_resolution_type(sub)
    IN  IF needed \notin vendor_primary_resolutions
        THEN SubsResult(FALSE, primary, secondary)
        ELSE SubsResult(TRUE,
                 IF Has(primary, sub_res_type) THEN primary
                 ELSE Insert(primary, sub_res_type, sub),
                 IF Has(secondary, sub_res_type) THEN secondary
                 ELSE Insert(secondary, sub_res_type, {}))

\* The resolutions of the vendor below that of the subscription, for a data type.
LowerResolutions(sub, type) ==
    {kind[1] : kind \in {k \in vendor_primary_resolutions :
                            /\ ResolutionRank(k[1]) < ResolutionRank(sub.resolution)
                            /\ k[2] = type}}

\* The QuoteBars and Candles branch of SymbolSubscriptionHandler::subscribe.
SubscribeConsolidated(sub, primary, secondary) ==
    LET has(kind) == kind \in vendor_primary_resolutions
        ticks == <<"Ticks1", "Ticks">>
        quotes == <<"Instant", "Quotes">>
        refused ==
            IF sub.base_data_type = "QuoteBars"
            THEN ~has(quotes) /\ "QuoteBars" \in vendor_data_types
            ELSE ~has(ticks) /\ ~has(quotes) /\ "Candles" \in vendor_data_types
        ideal_subscription ==
            IF sub.base_data_type = "QuoteBars" THEN quotes
            ELSE IF has(ticks) THEN ticks ELSE quotes
        same == LowerResolutions(sub, sub.base_data_type)
        lower == IF same # {} THEN same
                 ELSE IF sub.base_data_type = "Candles"
                      THEN LowerResolutions(sub, "QuoteBars") ELSE {}
        lowest_res == CHOOSE r \in lower :
                          \A q \in lower : ResolutionRank(r) <= ResolutionRank(q)
        lowest == <<lowest_res, sub.base_data_type>>
        own == subscription_resolution_type(sub)
    IN  IF refused THEN SubsResult(FALSE, primary, secondary)
        ELSE IF ~has(ideal_subscription)
        THEN IF lower = {}
             THEN IF has(own) THEN SubsResult(TRUE, Insert(primary, own, sub), secondary)
                  ELSE SubsResult(FALSE, primary, secondary)
             ELSE LET created == ~Has(primary, lowest)
                      prim == IF created
                              THEN Insert(primary, lowest,
                                          Sub(sub.symbol, lowest_res, sub.base_data_type))
                              ELSE primary
                      sec == IF created /\ ~Has(secondary, lowest)
                             THEN Insert(secondary, lowest, {}) ELSE secondary
                  IN  SubsResult(TRUE, prim,
                          IF Has(sec, lowest)
                          THEN [sec EXCEPT ![lowest] = @ \cup {sub}] ELSE sec)
        ELSE SubsResult(TRUE,
                 IF Has(primary, ideal_subscription) THEN primary
                 ELSE Insert(primary, ideal_subscription,
                             Sub(sub.symbol, ideal_subscription[1], ideal_subscription[2])),
                 IF Has(secondary, ideal_subscription)
                 THEN [secondary EXCEPT ![ideal_subscription] = @ \cup {sub}]
                 ELSE Insert(secondary, ideal_subscription, {sub}))

\* SymbolSubscriptionHandler::subscribe
SymbolSubscribe(sub, primary, secondary) ==
    LET own == subscription_resolution_type(sub)
    IN  IF Has(primary, own) /\ primary[own] = sub
        THEN SubsResult(FALSE, primary, secondary)
        ELSE IF Has(secondary, own) /\ sub \in secondary[own]
        THEN SubsResult(FALSE, primary, secondary)
        ELSE IF own \in vendor_primary_resolutions /\ strategy_mode = "Backtest"
        THEN SubsResult(TRUE, Insert(primary, own, sub), secondary)
        ELSE CASE sub.base_data_type = "Ticks" ->
                     SubscribeDirect(sub, <<"Ticks1", "Ticks">>, primary, secondary)
               [] sub.base_data_type = "Quotes" ->
                     SubscribeDirect(sub, <<"Instant", "Quotes">>, primary, secondary)
               [] OTHER -> SubscribeConsolidated(sub, primary, secondary)

\* SymbolSubscriptionHandler::active_count
active_count(secondary) == \E k \in DOMAIN secondary : secondary[k] # {}

\* SymbolSubscriptionHandler::all_subscriptions
all_subscriptions ==
    {primary_subscriptions[k] : k \in DOMAIN primary_subscriptions}
        \cup UNION {secondary_subscriptions[k] : k \in DOMAIN secondary_subscriptions}

\* SubscriptionHandler::primary_subscriptions
primary_subs ==
    {primary_subscriptions[k] : k \in DOMAIN primary_subscriptions}
        \cup fundamental_subscriptions

\* SubscriptionHandler::subscriptions
subscriptions == all_subscriptions \cup fundamental_subscriptions

\* The key of secondary_subscriptions under which a subscription's consolidator is held.
ServedBy(sub) ==
    {k \in DOMAIN secondary_subscriptions : sub \in secondary_subscriptions[k]}

SubsLast(op, sub, result) ==
    [op |-> op, sub |-> sub, result |-> result, served_by |-> ServedBy(sub)]

InitSubs(settings) ==
    /\ vendor_settings \in settings
    /\ strategy_mode = vendor_settings.mode
    /\ strategy_subscriptions = {}
    /\ fundamental_subscriptions = {}
    /\ symbol_subscriptions = FALSE
    /\ primary_subscriptions = EmptyMap
    /\ secondary_subscriptions = EmptyMap
    /\ subs_last = [op |-> "init", sub |-> None, result |-> "Ok", served_by |-> {}]

\* The strategy task is running: no earlier call panicked or is blocked.
SubsReady == subs_last.result \notin {"panic", "blocked"}

\* SubscriptionHandler::subscribe
Subscribe(sub) ==
    /\ UNCHANGED notSubs
    /\ SubsReady
    /\ UNCHANGED <<strategy_mode, vendor_settings>>
    /\ IF sub \in strategy_subscriptions
       THEN /\ subs_last' = SubsLast("subscribe", sub, "AlreadySubscribed")
            /\ UNCHANGED <<strategy_subscriptions, fundamental_subscriptions,
                           symbol_subscriptions, primary_subscriptions,
                           secondary_subscriptions>>
       ELSE /\ strategy_subscriptions' = strategy_subscriptions \cup {sub}
            /\ IF sub.base_data_type = "Fundamentals"
               THEN /\ fundamental_subscriptions' = fundamental_subscriptions \cup {sub}
                    /\ subs_last' = SubsLast("subscribe", sub, "Ok")
                    /\ UNCHANGED <<symbol_subscriptions, primary_subscriptions,
                                   secondary_subscriptions>>
               ELSE LET r == SymbolSubscribe(sub, primary_subscriptions,
                                             secondary_subscriptions)
                    IN  /\ symbol_subscriptions' = TRUE
                        /\ primary_subscriptions' = r.primary
                        /\ secondary_subscriptions' = r.secondary
                        /\ subs_last' = SubsLast("subscribe", sub,
                                                 IF r.ok THEN "Ok" ELSE "FailedToSubscribe")
                        /\ UNCHANGED fundamental_subscriptions

\* SymbolSubscriptionHandler::unsubscribe.  In the first branch the handler holds
\* a reference into secondary_subscriptions (get) while it removes the same key:
\* the remove waits for that reference for ever (blocked).
SymbolUnsubscribe(sub, primary, secondary) ==
    LET own == subscription_resolution_type(sub)
    IN  IF Has(primary, own)
        THEN IF Has(secondary, own)
             THEN [result |-> "blocked",
                   primary |-> IF secondary[own] = {} THEN Remove(primary, own) ELSE primary,
                   secondary |-> secondary]
             ELSE [result |-> "Ok", primary |-> primary, secondary |-> secondary]
        ELSE IF Has(secondary, own)
        THEN [result |-> IF sub \in secondary[own] THEN "Ok" ELSE "FailedUnSubscribed",
              primary |-> primary,
              secondary |-> [secondary EXCEPT ![own] = @ \ {sub}]]
        ELSE [result |-> "Ok", primary |-> primary, secondary |-> secondary]

\* SubscriptionHandler::unsubscribe
Unsubscribe(sub) ==
    /\ UNCHANGED notSubs
    /\ SubsReady
    /\ UNCHANGED <<strategy_mode, vendor_settings>>
    /\ IF sub.base_data_type = "Fundamentals"
       THEN /\ fundamental_subscriptions' = fundamental_subscriptions \ {sub}
            /\ strategy_subscriptions' = strategy_subscriptions \ {sub}
            /\ subs_last' = SubsLast("unsubscribe", sub, "Ok")
            /\ UNCHANGED <<symbol_subscriptions, primary_subscriptions,
                           secondary_subscriptions>>
       ELSE IF ~symbol_subscriptions
       THEN /\ subs_last' = SubsLast("unsubscribe", sub, "panic")
            /\ UNCHANGED <<strategy_subscriptions, fundamental_subscriptions,
                           symbol_subscriptions, primary_subscriptions,
                           secondary_subscriptions>>
       ELSE LET r == SymbolUnsubscribe(sub, primary_subscriptions, secondary_subscriptions)
                deregister == ~active_count(r.secondary)
            IN  /\ subs_last' = SubsLast("unsubscribe", sub, r.result)
                /\ UNCHANGED fundamental_subscriptions
                /\ IF r.result = "blocked"
                   THEN /\ primary_subscriptions' = r.primary
                        /\ UNCHANGED <<strategy_subscriptions, symbol_subscriptions,
                                       secondary_subscriptions>>
                   ELSE /\ strategy_subscriptions' = strategy_subscriptions \ {sub}
                        /\ symbol_subscriptions' = ~deregister
                        /\ primary_subscriptions' =
                              IF deregister THEN EmptyMap ELSE r.primary
                        /\ secondary_subscriptions' =
                              IF deregister THEN EmptyMap ELSE r.secondary

NextSubs ==
    \/ \E sub \in StrategySubscriptions : Subscribe(sub)
    \/ \E sub \in StrategySubscriptions : Unsubscribe(sub)

\* C10: after unsubscribe(sub) of a subscription served by a consolidator, the
\* consolidator is no longer in secondary_subscriptions and sub is not reported by
\* subscriptions(); if its primary is left without a consolidator and is not a
\* subscription of the strategy, primary_subscriptions() does not report the primary.
C10_UnsubscribeConsolidated ==
    (subs_last.op = "unsubscribe" /\ subs_last.served_by # {}
        /\ subs_last.result \notin {"panic", "blocked"}) =>
        /\ ServedBy(subs_last.sub) = {}
        /\ subs_last.sub \notin subscriptions
        /\ \A k \in subs_last.served_by :
              ((Has(secondary_subscriptions, k) => secondary_subscriptions[k] = {})
                  /\ \A s \in strategy_subscriptions : subscription_resolution_type(s) # k)
                 => ~Has(primary_subscriptions, k)

\* The latest call was a subscribe to bars of a vendor that serves neither
\* Ticks(1) nor Quotes(Instant) but bars of the same type at a lower resolution.
SubscribedToBarsOfBarVendor ==
    /\ subs_last.op = "subscribe"
    /\ subs_last.result # "AlreadySubscribed"
    /\ subs_last.sub.base_data_type \in {"QuoteBars", "Candles"}
    /\ <<"Ticks1", "Ticks">> \notin vendor_primary_resolutions
    /\ <<"Instant", "Quotes">> \notin vendor_primary_resolutions
    /\ LowerResolutions(subs_last.sub, subs_last.sub.base_data_type) # {}

\* C25: when the vendor serves neither Ticks(1) nor Quotes(Instant) but bars of
\* the requested type at a resolution below the requested one, subscribe succeeds
\* and the lowest such resolution is the primary the subscription is built from.
C25_BarsFromLowestBars ==
    SubscribedToBarsOfBarVendor =>
        LET lower == LowerResolutions(subs_last.sub, subs_last.sub.base_data_type)
            lowest == CHOOSE r \in lower :
                          \A q \in lower : ResolutionRank(r) <= ResolutionRank(q)
            key == <<lowest, subs_last.sub.base_data_type>>
        IN  /\ subs_last.result = "Ok"
            /\ Has(primary_subscriptions, key)
            /\ subs_last.served_by = {key}

\* Minutes(1) quote bars were asked of a vendor that serves Seconds(5) quote bars
\* only, and the call has answered.
C25_Witness ==
    /\ SubscribedToBarsOfBarVendor
    /\ subs_last.sub = Sub("ES", "Minutes1", "QuoteBars")
    /\ vendor_primary_resolutions = {<<"Seconds5", "QuoteBars">>}
    /\ subs_last.result = "FailedToSubscribe"

\* A step in which unsubscribe of subs_last'.sub ran and returned.
UnsubscribeReturned ==
    /\ subsVars' # subsVars
    /\ subs_last'.op = "unsubscribe"
    /\ subs_last'.result \notin {"panic", "blocked"}

\* C35: unsubscribe(S) leaves every other subscription in place: each T # S that
\* subscriptions() reported before is still reported and still has the
\* consolidator it had.
C35_UnsubscribeLeavesOthers ==
    [][UnsubscribeReturned =>
          \A T \in subscriptions \ {subs_last'.sub} :
              /\ T \in subscriptions'
              /\ ServedBy(T) \subseteq ServedBy(T)']_vars

\* unsubscribe returned and a subscription of the strategy other than the one
\* removed is no longer reported.
C35_Witness ==
    /\ subs_last.op = "unsubscribe"
    /\ subs_last.result \notin {"panic", "blocked"}
    /\ \E T \in strategy_subscriptions : T # subs_last.sub /\ T \notin subscriptions

\* C36: SubscriptionHandler::unsubscribe always returns: it neither blocks on the
\* handler's own maps nor aborts.
C36_UnsubscribeReturns ==
    subs_last.op = "unsubscribe" => subs_last.result \notin {"panic", "blocked"}

\* unsubscribe of a primary subscription that has an entry in
\* secondary_subscriptions was called.
C36_Witness ==
    /\ subs_last.op = "unsubscribe"
    /\ Has(primary_subscriptions, subscription_resolution_type(subs_last.sub))
    /\ Has(secondary_subscriptions, subscription_resolution_type(subs_last.sub))

\* C37: after subscribe has returned FailedToSubscribe for a subscription that was
\* not subscribed before, strategy_subscriptions() does not contain it.
C37_FailedSubscribeNotKept ==
    (subs_last.op = "subscribe" /\ subs_last.result = "FailedToSubscribe")
        => subs_last.sub \notin strategy_subscriptions

\* A subscribe of a subscription not subscribed before has failed.
C37_Witness ==
    /\ subs_last.op = "subscribe"
    /\ subs_last.result = "FailedToSubscribe"
    /\ subs_last.sub \notin subscriptions

\* C39: every subscription registered in primary_subscriptions has a
\* (resolution, data type) pair the vendor lists in resolutions().
C39_PrimariesAreVendorFeeds ==
    \A k \in DOMAIN primary_subscriptions :
        /\ k \in vendor_primary_resolutions
        /\ subscription_resolution_type(primary_subscriptions[k]) = k

\* A Candles subscription was built from a lower resolution of a vendor that
\* serves quote bars only.
C39_Witness ==
    /\ subs_last.op = "subscribe"
    /\ subs_last.result = "Ok"
    /\ subs_last.sub.base_data_type = "Candles"
    /\ vendor_primary_resolutions = {<<"Seconds5", "QuoteBars">>}
    /\ subs_last.sub \in subscriptions

(***************************************************************************)
(*                            LIVE WARM-UP                                  *)
(* Times are whole numbers of the smallest step of the clock (the           *)
(* nanosecond live_warm_up adds to last_time); a UTC day holds WarmupDayLen *)
(* of them and a month WarmupMonthLen days.  The clock (Utc::now) stands    *)
(* still while the warm-up runs.  The archive holds no data after now.      *)
(***************************************************************************)

\* the number of clock steps in a UTC day
WarmupDayLen == 4
\* the number of days in a month
WarmupMonthLen == 3
\* the latest day the clock may show
WarmupMaxDay == 3
\* the number of primary subscription updates that arrive during the warm-up
WarmupMaxUpdates == 1
\* the number of times get_historical_data fails
WarmupMaxErrors == 1

\* buffer_duration, in clock steps
BufferDurations == {1, 3, WarmupDayLen + 1}

WarmupTimes == 0 .. (WarmupDayLen * (WarmupMaxDay + 1) - 1)

\* date_naive()
WarmupDayOf(t) == t \div WarmupDayLen

\* DateTime::day(): the day of the month
DayOfMonth(t) == WarmupDayOf(t) % WarmupMonthLen

\* The end of the UTC day of t (23:59:59.999999999).
EndOfDay(t) == WarmupDayOf(t) * WarmupDayLen + WarmupDayLen - 1

\* The close-times at which the archive may hold data: one in each day.
WarmupDataTimes == {d * WarmupDayLen + 2 : d \in 0 .. WarmupMaxDay}

\* A warm-up of nothing, for the parts that do not warm up.
WarmupIdle ==
    [warm_up_start_time |-> 0, now |-> 2 * WarmupDayLen, buffer_duration |-> 1,
     tick_over_no_data |-> TRUE, data |-> {}]

\* The arguments of live_warm_up, the clock and the data of the archive.
WarmupConfigs ==
    [warm_up_start_time : {0, WarmupDayLen + 2},
     now : {t \in WarmupTimes : WarmupDayOf(t) >= 2},
     buffer_duration : BufferDurations,
     tick_over_no_data : BOOLEAN,
     data : SUBSET WarmupDataTimes]

\* get_historical_data: the time slices of the archive from from_time to to_time.
get_historical_data(from_time, to_time) ==
    {t \in wu_config.data : t <= wu_config.now /\ from_time <= t /\ t <= to_time}

\* Past the horizon there is no data and no now: the loop cannot tell the days
\* there apart, and they are kept modulo three days.
WarmupHorizon == EndOfDay(wu_config.now) + 4 * WarmupDayLen

BeyondHorizon(t) == IF t > WarmupHorizon THEN t - 3 * WarmupDayLen ELSE t

InitWarmup(configs) ==
    /\ wu_config \in configs
    /\ wu_pc = "main"
    /\ wu_last_time = wu_config.warm_up_start_time
    /\ wu_first_iteration = TRUE
    /\ wu_to_time = wu_config.warm_up_start_time
    /\ wu_time = wu_config.warm_up_start_time
    /\ wu_time_slices = {}
    /\ wu_update_pending = FALSE
    /\ wu_updates_left = WarmupMaxUpdates
    /\ wu_errors_left = WarmupMaxErrors
    /\ wu_complete_events = 0
    /\ wu_step = [steps |-> 0, time |-> wu_config.warm_up_start_time,
                  previous |-> wu_config.warm_up_start_time, records |-> {},
                  delivered |-> {}, twice |-> {}]

\* set_warmup_complete(); send WarmUpComplete; break 'main_loop
WarmUpComplete ==
    /\ wu_pc' = "done"
    /\ wu_complete_events' = wu_complete_events + 1
    /\ UNCHANGED <<wu_last_time, wu_to_time, wu_time, wu_time_slices>>

\* last_time = to_time + buffer_duration; continue 'main_loop
SkipNoData(to_time) ==
    /\ wu_last_time' = BeyondHorizon(to_time + wu_config.buffer_duration)
    /\ wu_to_time' = IF to_time + wu_config.buffer_duration > WarmupHorizon
                     THEN to_time - 3 * WarmupDayLen ELSE to_time
    /\ UNCHANGED <<wu_pc, wu_time, wu_time_slices, wu_complete_events>>

\* Enter the day loop with the time slices fetched.
EnterDayLoop(last_time, to_time, time_slices) ==
    /\ wu_pc' = "day"
    /\ wu_last_time' = last_time
    /\ wu_to_time' = to_time
    /\ wu_time' = last_time
    /\ wu_time_slices' = time_slices
    /\ UNCHANGED wu_complete_events

\* One pass of 'main_loop of live_warm_up, to the day loop.
WarmUpMainLoop ==
    /\ UNCHANGED notWarmup
    /\ wu_pc = "main"
    /\ wu_first_iteration' = FALSE
    /\ UNCHANGED <<wu_config, wu_update_pending, wu_updates_left, wu_step>>
    /\ LET last_time == IF wu_first_iteration THEN wu_last_time ELSE wu_last_time + 1
           to_time == IF EndOfDay(last_time) > last_time THEN EndOfDay(last_time)
                      ELSE last_time
           time_slices == get_historical_data(last_time, to_time)
       IN  \/ /\ UNCHANGED wu_errors_left
              /\ IF time_slices = {} /\ ~wu_config.tick_over_no_data
                 THEN SkipNoData(to_time)
                 ELSE IF DayOfMonth(to_time) = DayOfMonth(wu_config.now)
                 THEN WarmUpComplete
                 ELSE EnterDayLoop(last_time, to_time, time_slices)
           \/ /\ wu_errors_left > 0
              /\ wu_errors_left' = wu_errors_left - 1
              /\ IF wu_config.tick_over_no_data
                 THEN EnterDayLoop(last_time, to_time, {})
                 ELSE SkipNoData(to_time)

\* A range that takes every key, whatever the step time.
InAnyRange(t, last_time, time) == t >= last_time

\* time_slices.range(last_time..=time): the keys of the time slice of a step.
InTimeRange(t, last_time, time) == last_time <= t /\ t <= time

\* One pass of 'day_loop of live_warm_up.
WarmUpDayLoop ==
    /\ UNCHANGED notWarmup
    /\ wu_pc = "day"
    /\ UNCHANGED <<wu_config, wu_first_iteration, wu_updates_left, wu_errors_left>>
    /\ IF ~(wu_time <= wu_to_time)
       THEN /\ wu_pc' = "main"
            /\ UNCHANGED <<wu_last_time, wu_to_time, wu_time, wu_time_slices,
                           wu_update_pending, wu_complete_events, wu_step>>
       ELSE LET time == wu_time + wu_config.buffer_duration
            IN  IF time >= wu_config.now
                THEN WarmUpComplete /\ UNCHANGED <<wu_update_pending, wu_step>>
                ELSE IF wu_update_pending
                THEN /\ wu_update_pending' = FALSE
                     /\ wu_pc' = "main"
                     /\ wu_time' = time
                     /\ UNCHANGED <<wu_last_time, wu_to_time, wu_time_slices,
                                    wu_complete_events, wu_step>>
                ELSE /\ wu_time_slices' =
                           {t \in wu_time_slices : ~InTimeRange(t, wu_last_time, time)}
                     /\ wu_step' =
                           [steps |-> IF wu_step.steps < 2 THEN wu_step.steps + 1 ELSE 2,
                            time |-> time, previous |-> wu_step.time,
                            records |-> {t \in wu_time_slices :
                                            InTimeRange(t, wu_last_time, time)},
                            delivered |-> wu_step.delivered \cup
                                {t \in wu_time_slices :
                                    InTimeRange(t, wu_last_time, time)},
                            twice |-> wu_step.twice \cup
                                {t \in wu_time_slices \cap wu_step.delivered :
                                    InTimeRange(t, wu_last_time, time)}]
                     /\ wu_last_time' = time
                     /\ wu_time' = time
                     /\ UNCHANGED <<wu_pc, wu_to_time, wu_update_pending,
                                    wu_complete_events>>

\* The subscription handler broadcasts a changed set of primary subscriptions.
PrimarySubscriptionUpdate ==
    /\ UNCHANGED notWarmup
    /\ wu_pc # "done"
    /\ wu_updates_left > 0
    /\ ~wu_update_pending
    /\ wu_updates_left' = wu_updates_left - 1
    /\ wu_update_pending' = TRUE
    /\ UNCHANGED <<wu_config, wu_pc, wu_last_time, wu_first_iteration, wu_to_time,
                   wu_time, wu_time_slices, wu_errors_left, wu_complete_events, wu_step>>

\* C34: when WarmUpComplete is emitted after a warm-up in which every fetch of
\* the archive succeeded, every archived record of the primary subscriptions
\* with a close-time between the warm-up start and now has been delivered to
\* the strategy in exactly one TimeSlice: none was skipped and none came twice.
C34_EveryRecordDeliveredOnce ==
    (wu_pc = "done" /\ wu_errors_left = WarmupMaxErrors) =>
        /\ \A t \in wu_config.data :
              (wu_config.warm_up_start_time <= t /\ t <= wu_config.now)
                  => t \in wu_step.delivered
        /\ wu_step.twice = {}

\* The warm-up completed, having delivered at least one record over two steps or
\* more, with data of the last day in the archive.
C34_Witness ==
    /\ wu_pc = "done"
    /\ wu_errors_left = WarmupMaxErrors
    /\ wu_step.steps = 2
    /\ wu_step.delivered # {}
    /\ \E t \in wu_config.data :
          /\ WarmupDayOf(t) = WarmupDayOf(wu_config.now)
          /\ wu_config.warm_up_start_time <= t /\ t <= wu_config.now

\* live_warm_up runs on: its task is scheduled as long as it has a step to take.
WarmUpStep == WarmUpMainLoop \/ WarmUpDayLoop

NextWarmup ==
    \/ WarmUpMainLoop
    \/ WarmUpDayLoop
    \/ PrimarySubscriptionUpdate

\* C21: the replay loop emits TimeSlices in non-decreasing engine-time order: the
\* step time never decreases from one step to the next (across day boundaries
\* and a re-fetch after a subscription change too), and every primary record of
\* the slice of the step at time t has a close-time no later than t and no
\* earlier than the previous step time.
C21_MonotoneReplay ==
    /\ wu_step.previous <= wu_step.time
    /\ \A t \in wu_step.records : wu_step.previous <= t /\ t <= wu_step.time

\* A step in the day after an earlier step, after a re-fetch that followed a
\* subscription update, with a record in its slice.
C21_Witness ==
    /\ wu_step.steps = 2
    /\ WarmupDayOf(wu_step.previous) < WarmupDayOf(wu_step.time)
    /\ wu_updates_left = 0
    /\ ~wu_update_pending
    /\ wu_step.records # {}

\* C11: the live warm-up always terminates: it eventually sends WarmUpComplete,
\* exactly once, also when the archive holds no data for the latest days and
\* tick_over_no_data is false.
C11_WarmUpCompletes ==
    <>[](wu_pc = "done" /\ wu_complete_events = 1)

\* The warm-up has walked past now without completing, in an archive that holds
\* data, but none for the day of now.
C11_Witness ==
    /\ wu_pc = "main"
    /\ ~wu_config.tick_over_no_data
    /\ wu_config.data # {}
    /\ wu_last_time > wu_config.now
    /\ wu_complete_events = 0

\* ------------------------------------------------------------------------------
\* The Heikin-Ashi consolidator (consolidators/heikinashi.rs), fed with ticks.
\* Prices are counted in ticks (tick_size is one unit), times in steps of the clock.
\* ------------------------------------------------------------------------------

MaxHaPrice == 2

MaxHaTime == 4

HaResolution == 2

HistoryToRetain == 2

MaxHaSteps == 4

\* The ticks the consolidator may be given, in any order of their times.
HaTicks == [kind : {"Tick"}, time : 0 .. MaxHaTime, price : 1 .. MaxHaPrice, volume : {1}]

\* open_time (consolidators/candlesticks.rs): the start of the bar a time falls in.
open_time(time) == time - (time % HaResolution)

\* time_created_utc: the time itself for a tick, the end of the bar for a candle.
time_created_utc(data) ==
    IF data.kind = "Candle" THEN data.time + HaResolution ELSE data.time

\* round_to_tick_size of half a number of ticks: f64::round rounds half away from
\* zero.
RoundHalfToTick(twice) == (twice + 1) \div 2

\* new_heikin_ashi_candle for a tick: the candle and the previous_ha_* it leaves.
new_heikin_ashi_candle(previous, tick) ==
    LET seeded == IF previous.close = 0 /\ previous.open = 0
                  THEN [open |-> tick.price, close |-> tick.price]
                  ELSE previous
        ha_close == tick.price
        ha_open == RoundHalfToTick(seeded.open + seeded.close)
        ha_high == IF ha_close > ha_open THEN ha_close ELSE ha_open
        ha_low == IF ha_close < ha_open THEN ha_close ELSE ha_open
    IN  [candle |-> [kind |-> "Candle", time |-> open_time(tick.time), open |-> ha_open,
                     high |-> ha_high, low |-> ha_low, close |-> ha_close,
                     volume |-> tick.volume, is_closed |-> FALSE,
                     range |-> ha_high - ha_low],
         previous |-> [open |-> ha_open, close |-> ha_close]]

\* RollingWindow::add: the newest bar is kept, the oldest beyond `number` is let go.
HistoryAdd(history, bar) ==
    LET all == Append(history, bar)
    IN  IF Len(all) > HistoryToRetain THEN Tail(all) ELSE all

HaCall(op, data, returned) ==
    [op |-> op, data |-> data, before |-> ha_current, returned |-> returned]

InitConsolidator ==
    /\ ha_current = None
    /\ ha_previous = [open |-> 0, close |-> 0]
    /\ ha_history = <<>>
    /\ ha_clock = 0
    /\ ha_steps = 0
    /\ ha_last = [op |-> "none", data |-> None, before |-> None, returned |-> <<>>]

\* HeikinAshiConsolidator::update.
HaUpdate(base_data) ==
    /\ UNCHANGED notConsolidator
    /\ ha_steps < MaxHaSteps
    /\ ha_steps' = ha_steps + 1
    /\ UNCHANGED ha_clock
    /\ IF ha_current = None
       THEN LET new == new_heikin_ashi_candle(ha_previous, base_data)
            IN  /\ ha_current' = new.candle
                /\ ha_previous' = new.previous
                /\ UNCHANGED ha_history
                /\ ha_last' = HaCall("update", base_data, <<new.candle>>)
       ELSE IF time_created_utc(base_data) >= time_created_utc(ha_current)
       THEN LET consolidated_bar == [ha_current EXCEPT !.is_closed = TRUE]
                new == new_heikin_ashi_candle(ha_previous, base_data)
            IN  /\ ha_history' = HistoryAdd(ha_history, consolidated_bar)
                /\ ha_current' = new.candle
                /\ ha_previous' = new.previous
                /\ ha_last' = HaCall("update", base_data, <<consolidated_bar, new.candle>>)
       ELSE LET high == IF base_data.price > ha_current.high THEN base_data.price
                        ELSE ha_current.high
                low == IF base_data.price < ha_current.low THEN base_data.price
                       ELSE ha_current.low
                candle == [ha_current EXCEPT !.high = high, !.low = low,
                                             !.close = base_data.price,
                                             !.range = high - low,
                                             !.volume = @ + base_data.volume]
            IN  /\ ha_current' = candle
                /\ UNCHANGED <<ha_previous, ha_history>>
                /\ ha_last' = HaCall("update", base_data, <<candle>>)

\* HeikinAshiConsolidator::update_time, called with the engine's time.
HaUpdateTime(time) ==
    /\ UNCHANGED notConsolidator
    /\ ha_steps < MaxHaSteps
    /\ ha_steps' = ha_steps + 1
    /\ time >= ha_clock
    /\ ha_clock' = time
    /\ UNCHANGED <<ha_previous, ha_history>>
    /\ IF ha_current # None /\ time >= time_created_utc(ha_current)
       THEN /\ ha_current' = None
            /\ ha_last' = HaCall("update_time", time, <<ha_current>>)
       ELSE /\ UNCHANGED ha_current
            /\ ha_last' = HaCall("update_time", time, <<>>)

NextConsolidator ==
    \/ \E base_data \in HaTicks : HaUpdate(base_data)
    \/ \E time \in 0 .. MaxHaTime + HaResolution : HaUpdateTime(time)

\* The bars the latest call handed out as finished: the first of the two bars
\* update returns when a datum closes the current bar, and every bar update_time
\* returns.
HandedOutAsFinished ==
    IF ha_last.op = "update_time" THEN ha_last.returned
    ELSE IF ha_last.op = "update" /\ Len(ha_last.returned) = 2
    THEN <<ha_last.returned[1]>>
    ELSE <<>>

\* C22: every bar a consolidator hands out as finished, closed by an incoming
\* datum in update or flushed by update_time, has is_closed = true.
C22_FinishedBarsAreClosed ==
    \A i \in DOMAIN HandedOutAsFinished : HandedOutAsFinished[i].is_closed

\* update_time flushed a bar whose end time had passed.
C22_Witness ==
    /\ ha_last.op = "update_time"
    /\ Len(ha_last.returned) = 1
    /\ ha_last.data >= ha_last.returned[1].time + HaResolution

\* C26: a datum whose time is earlier than the open time of the current bar is
\* dropped: update leaves the current bar as it was.
C26_LateDatumDropped ==
    (/\ ha_last.op = "update"
     /\ ha_last.before # None
     /\ ha_last.data.time < ha_last.before.time)
        => ha_current = ha_last.before

\* update was given a tick older than the open time of the bar being built.
C26_Witness ==
    /\ ha_last.op = "update"
    /\ ha_last.before # None
    /\ ha_last.data.time < ha_last.before.time
    /\ ha_last.data.price > ha_last.before.high

\* ------------------------------------------------------------------------------
\* The data updates the server pushes for one feed on one connection
\* (request_handler, server_connections.rs): the read loop of the connection
\* reads one message after the other and spawns a task for each; the task
\* decodes the message and sends the time slice to the strategy's event channel.
\* The tasks run on the runtime's worker threads in any order.
\* ------------------------------------------------------------------------------

MaxDataUpdates == 5

InitStream ==
    /\ feed_read = 0
    /\ feed_tasks = {}
    /\ event_channel = <<>>

\* The read loop reads the next DataUpdates message and spawns its task.
DataUpdateRead ==
    /\ UNCHANGED notStream
    /\ feed_read < MaxDataUpdates
    /\ feed_read' = feed_read + 1
    /\ feed_tasks' = feed_tasks \cup {feed_read + 1}
    /\ UNCHANGED event_channel

\* The task of a DataUpdates message runs, whichever of the spawned tasks it is:
\* send_strategy_event_slice.
DataUpdateTask(n) ==
    /\ UNCHANGED notStream
    /\ n \in feed_tasks
    /\ feed_tasks' = feed_tasks \ {n}
    /\ event_channel' = Append(event_channel, n)
    /\ UNCHANGED feed_read

NextStream ==
    \/ DataUpdateRead
    \/ \E n \in 1 .. MaxDataUpdates : DataUpdateTask(n)

\* C27: the data updates of one feed on one connection reach the strategy's event
\* channel in the order in which they arrived on the connection.
C27_UpdatesInArrivalOrder ==
    \A i \in DOMAIN event_channel : \A j \in DOMAIN event_channel :
        i < j => event_channel[i] < event_channel[j]

\* Two data updates were read before the task of either ran, and both tasks
\* have run.
C27_Witness ==
    /\ feed_read >= 2
    /\ Len(event_channel) = feed_read
    /\ feed_tasks = {}

\* ------------------------------------------------------------------------------
\* The backfill of historical data (HybridStorage::update_symbol, database.rs).
\* update_symbol looks the symbol name up in download_tasks and, if it is not
\* there, spawns a task; the task itself registers the name, waits for a permit
\* of download_semaphore, downloads, and takes the name out again.
\* ------------------------------------------------------------------------------

MaxBackfillTasks == 3

MaxConcurrentDownloads == 1

BackfillSymbols == {"EUR-USD", "AUD-USD"}

InitBackfill ==
    /\ download_tasks = <<>>
    /\ backfill_tasks = <<>>
    /\ download_permits = MaxConcurrentDownloads
    /\ backfill_last = [symbol |-> None, spawned |-> FALSE]

\* tasks.iter().any(|(name, _)| name == &symbol.name)
Downloading(tasks, name) == \E i \in DOMAIN tasks : tasks[i] = name

\* retain(|(name, _)| name != &symbol.name)
RECURSIVE Retain(_, _)
Retain(tasks, name) ==
    IF tasks = <<>> THEN <<>>
    ELSE IF Head(tasks) = name THEN Retain(Tail(tasks), name)
    ELSE <<Head(tasks)>> \o Retain(Tail(tasks), name)

\* HybridStorage::update_symbol up to its return: None without a connected client
\* or for a name found in download_tasks, otherwise the handle of the spawned task.
UpdateSymbol(symbol) ==
    /\ UNCHANGED notBackfill
    /\ Len(backfill_tasks) < MaxBackfillTasks
    /\ UNCHANGED <<download_tasks, download_permits>>
    /\ IF ~is_connected \/ Downloading(download_tasks, symbol)
       THEN /\ backfill_last' = [symbol |-> symbol, spawned |-> FALSE]
            /\ UNCHANGED backfill_tasks
       ELSE /\ backfill_last' = [symbol |-> symbol, spawned |-> TRUE]
            /\ backfill_tasks' = Append(backfill_tasks, [symbol |-> symbol, pc |-> "spawned"])

\* The spawned task starts: download_tasks.write().await.push(..).
BackfillRegister(t) ==
    /\ UNCHANGED notBackfill
    /\ t \in DOMAIN backfill_tasks
    /\ backfill_tasks[t].pc = "spawned"
    /\ download_tasks' = Append(download_tasks, backfill_tasks[t].symbol)
    /\ backfill_tasks' = [backfill_tasks EXCEPT ![t].pc = "registered"]
    /\ UNCHANGED <<download_permits, backfill_last>>

\* semaphore.acquire().await returns a permit.
BackfillAcquire(t) ==
    /\ UNCHANGED notBackfill
    /\ t \in DOMAIN backfill_tasks
    /\ backfill_tasks[t].pc = "registered"
    /\ download_permits > 0
    /\ download_permits' = download_permits - 1
    /\ backfill_tasks' = [backfill_tasks EXCEPT ![t].pc = "downloading"]
    /\ UNCHANGED <<download_tasks, backfill_last>>

\* update_historical_data has returned: the name is taken out of download_tasks
\* and the permit is dropped.
BackfillFinish(t) ==
    /\ UNCHANGED notBackfill
    /\ t \in DOMAIN backfill_tasks
    /\ backfill_tasks[t].pc = "downloading"
    /\ download_tasks' = Retain(download_tasks, backfill_tasks[t].symbol)
    /\ download_permits' = download_permits + 1
    /\ backfill_tasks' = [backfill_tasks EXCEPT ![t].pc = "done"]
    /\ UNCHANGED backfill_last

NextBackfill ==
    \/ \E symbol \in BackfillSymbols : UpdateSymbol(symbol)
    \/ \E t \in 1 .. MaxBackfillTasks : BackfillRegister(t)
    \/ \E t \in 1 .. MaxBackfillTasks : BackfillAcquire(t)
    \/ \E t \in 1 .. MaxBackfillTasks : BackfillFinish(t)
    \/ ConnectionChange

\* The spawned, unfinished tasks of a symbol name.
InFlight(name) ==
    {t \in DOMAIN backfill_tasks :
        backfill_tasks[t].symbol = name /\ backfill_tasks[t].pc # "done"}

\* C29: at most one backfill task per symbol name is in flight at any time: an
\* update_symbol for a name that has a spawned, unfinished task starts no second
\* one, even when the two calls follow each other immediately.
C29_OneBackfillPerSymbol ==
    \A name \in BackfillSymbols : Cardinality(InFlight(name)) <= 1

\* update_symbol was called for a name whose task is spawned and has not yet
\* registered the name.
C29_Witness ==
    /\ backfill_last.symbol \in BackfillSymbols
    /\ \E t \in InFlight(backfill_last.symbol) :
          /\ t < Len(backfill_tasks) \/ ~backfill_last.spawned
          /\ backfill_tasks[t].pc = "spawned"

\* ------------------------------------------------------------------------------
\* Concurrent data_feed_subscribe calls for one feed key (rithmic_api/
\* vendor_api_response.rs; the Oanda client has the same shape).  Each stream's
\* call runs in the task of its connection, on any worker thread of the runtime.
\* A call looks the key up with get; if a sender is there it subscribes a receiver
\* to it while it holds the reference, otherwise it creates a channel and stores
\* the sender with insert, registers the receiver, and sends the vendor request.
\* ------------------------------------------------------------------------------

MaxRaceStreams == 3

RaceStreams == 1 .. MaxRaceStreams

InitRace ==
    /\ sub_pc = [s \in RaceStreams |-> "idle"]
    /\ feed_sender = 0
    /\ senders_created = {}
    /\ receiver_of = [s \in RaceStreams |-> 0]
    /\ vendor_requests = 0

\* `if let Some(broadcaster) = self.tick_feed_broadcasters.get(..)`: with a sender
\* the receiver is subscribed and registered under the reference and the call
\* returns; without one the call goes on to the else branch.
SubscribeGet(s) ==
    /\ UNCHANGED notRace
    /\ sub_pc[s] = "idle"
    /\ IF feed_sender # 0
       THEN /\ receiver_of' = [receiver_of EXCEPT ![s] = feed_sender]
            /\ sub_pc' = [sub_pc EXCEPT ![s] = "done"]
       ELSE /\ sub_pc' = [sub_pc EXCEPT ![s] = "absent"]
            /\ UNCHANGED receiver_of
    /\ UNCHANGED <<feed_sender, senders_created, vendor_requests>>

\* The else branch: broadcast::channel, insert (which replaces a sender stored in
\* the meantime) and subscribe_stream.
SubscribeInsert(s) ==
    /\ UNCHANGED notRace
    /\ sub_pc[s] = "absent"
    /\ senders_created' = senders_created \cup {s}
    /\ feed_sender' = s
    /\ receiver_of' = [receiver_of EXCEPT ![s] = s]
    /\ sub_pc' = [sub_pc EXCEPT ![s] = "inserted"]
    /\ UNCHANGED vendor_requests

\* `if !is_subscribed`: the market data request is sent and the call returns.
SubscribeRequest(s) ==
    /\ UNCHANGED notRace
    /\ sub_pc[s] = "inserted"
    /\ vendor_requests' = vendor_requests + 1
    /\ sub_pc' = [sub_pc EXCEPT ![s] = "done"]
    /\ UNCHANGED <<feed_sender, senders_created, receiver_of>>

NextRace ==
    \/ \E s \in RaceStreams : SubscribeGet(s)
    \/ \E s \in RaceStreams : SubscribeInsert(s)
    \/ \E s \in RaceStreams : SubscribeRequest(s)

\* C30: under any interleaving of concurrent subscribe calls for a feed key that
\* has no broadcaster yet, exactly one broadcaster is created and kept, the
\* receiver of every subscribing stream is attached to it, and the vendor
\* subscribe request is sent once.
C30_OneBroadcasterPerKey ==
    /\ Cardinality(senders_created) <= 1
    /\ \A s \in RaceStreams : receiver_of[s] # 0 => receiver_of[s] = feed_sender
    /\ vendor_requests <= 1
    /\ (\A s \in RaceStreams : sub_pc[s] = "done") =>
          /\ Cardinality(senders_created) = 1
          /\ vendor_requests = 1

\* Two calls found no sender for the key before either stored one, and all calls
\* have returned.
C30_Witness ==
    /\ \A s \in RaceStreams : sub_pc[s] = "done"
    /\ Cardinality(senders_created) >= 2

\* ------------------------------------------------------------------------------
\* The scheduled update of historical data: HybridStorage::update_data decides per
\* configured symbol whether to spawn a download task (database.rs), and the
\* task runs the vendor's update_historical_data (rithmic_api/
\* vendor_api_response.rs), which asks for the records window by window and
\* hands them to save_data_bulk.  Times are in steps; a day has DlDayLen steps.
\* ------------------------------------------------------------------------------

\* the steps of a UTC day
DlDayLen == 4
\* the time Utc::now() shows
DlNow == 11
\* how many save_data_bulk calls may fail in a row
MaxFailedSaves == 6
\* how many update_data passes run over the symbol
MaxUpdatePasses == 2

\* Duration::hours(4), the length of a replay window
ReplayWindow == 2
\* TIME_NEGATIVE (one second)
TIME_NEGATIVE == 1
\* the number of times a failed save makes the window be downloaded again
MaxSaveAttempts == 3

\* The close-times of the records the vendor may hold.
DlDataTimes == {1, 3, 5, 6, 9}

DlDayOf(t) == t \div DlDayLen

SetMin(S) == CHOOSE t \in S : \A u \in S : t <= u
SetMax(S) == CHOOSE t \in S : \A u \in S : t >= u

\* The update of no symbol, for the parts that do not download.
DownloadIdle == [start_date |-> 0, now |-> DlNow, data |-> {}, saved |-> {}]

\* The configured start_date of the symbol (midnight of a day), the records
\* the vendor holds and those of them the archive holds already.
DownloadConfigs ==
    {c \in [start_date : {0, DlDayLen}, now : {DlNow},
            data : SUBSET DlDataTimes, saved : SUBSET DlDataTimes] :
        c.saved \subseteq c.data}

NoUpdate ==
    [from_back |-> FALSE, none_saved |-> FALSE, earliest |-> 0, spawned |-> FALSE,
     from |-> 0, to |-> 0]

InitDownload(configs) ==
    /\ dl_config \in configs
    /\ dl_pc = "idle"
    /\ dl_update = NoUpdate
    /\ dl_window_start = 0
    /\ dl_save_attempts = 0
    /\ dl_saved = dl_config.saved
    /\ dl_returned = {}
    /\ dl_failed_saves = 0
    /\ dl_passes = 0

\* HybridStorage::update_data for the symbol, up to the call of update_symbol;
\* the spawned task starts update_historical_data(from, to, from_back).
UpdateData(from_back) ==
    /\ UNCHANGED notUpdate
    /\ dl_pc \in {"idle", "skipped", "Ok"}
    /\ dl_passes < MaxUpdatePasses
    /\ dl_passes' = dl_passes + 1
    /\ LET start_date == dl_config.start_date
           none_saved == dl_saved = {}
           earliest == IF none_saved THEN 0 ELSE SetMin(dl_saved)
           start_time == IF from_back \/ none_saved THEN start_date
                         ELSE SetMax(dl_saved)
           has_end == \/ ~from_back
                      \/ none_saved
                      \/ earliest - DlDayLen > start_time
           end_time == IF ~from_back \/ none_saved THEN dl_config.now ELSE earliest
           spawned == has_end /\ ~(from_back /\ start_time - end_time < DlDayLen)
       IN  /\ dl_update' =
                 [from_back |-> from_back, none_saved |-> none_saved,
                  earliest |-> earliest, spawned |-> spawned,
                  from |-> IF spawned THEN start_time ELSE 0,
                  to |-> IF spawned THEN end_time ELSE 0]
           /\ dl_pc' = IF spawned THEN "loop" ELSE "skipped"
           /\ dl_window_start' = IF spawned THEN start_time ELSE dl_window_start
    /\ dl_save_attempts' = 0
    /\ dl_returned' = {}
    /\ dl_failed_saves' = 0
    /\ UNCHANGED <<dl_config, dl_saved>>

\* The answer to send_replay_request: the vendor's records of the window.
ReplayResponse(window_start, window_end) ==
    {t \in dl_config.data : window_start <= t /\ t <= window_end}

\* One turn of 'main_loop of update_historical_data.  The answer of the vendor
\* arrives or times out; save_data_bulk, if called, succeeds or fails.
DownloadWindow(answer, save_ok) ==
    /\ UNCHANGED notUpdate
    /\ dl_pc = "loop"
    /\ UNCHANGED <<dl_config, dl_update, dl_passes>>
    /\ LET current_to == IF dl_update.from_back THEN dl_update.to ELSE dl_config.now
           window_start == dl_window_start
           span == current_to - window_start
           window_end == window_start + (IF ReplayWindow < span THEN ReplayWindow ELSE span)
           data_map == ReplayResponse(window_start, window_end)
           last_time == IF data_map = {} THEN window_start ELSE SetMax(data_map)
           is_saving == data_map # {} /\ DlDayOf(last_time) # DlDayOf(window_start)
           next_start == IF data_map # {} /\ last_time > window_start
                         THEN last_time ELSE window_end
           is_end == IF data_map # {} THEN last_time >= current_to - TIME_NEGATIVE
                     ELSE next_start >= current_to - TIME_NEGATIVE
       IN  IF window_start >= current_to - TIME_NEGATIVE \/ answer = "timeout"
           THEN /\ dl_pc' = "Ok"
                /\ UNCHANGED <<dl_window_start, dl_save_attempts, dl_saved,
                               dl_returned, dl_failed_saves>>
           ELSE /\ dl_returned' = dl_returned \cup data_map
                /\ IF is_saving /\ ~save_ok
                   THEN /\ dl_failed_saves < MaxFailedSaves
                        /\ dl_failed_saves' = dl_failed_saves + 1
                        /\ dl_window_start' = window_start
                        /\ UNCHANGED dl_saved
                        /\ IF dl_save_attempts < MaxSaveAttempts
                           THEN /\ dl_save_attempts' = dl_save_attempts + 1
                                /\ dl_pc' = "loop"
                           ELSE /\ dl_save_attempts' = 0
                                /\ dl_pc' = IF is_end THEN "Ok" ELSE "loop"
                   ELSE /\ dl_saved' = IF is_saving THEN dl_saved \cup data_map
                                       ELSE dl_saved
                        /\ dl_failed_saves' = IF is_saving THEN 0 ELSE dl_failed_saves
                        /\ dl_save_attempts' = IF is_saving THEN 0 ELSE dl_save_attempts
                        /\ dl_window_start' = next_start
                        /\ dl_pc' = IF is_end THEN "Ok" ELSE "loop"

NextUpdate ==
    \/ \E from_back \in BOOLEAN : UpdateData(from_back)
    \/ \E answer \in {"response", "timeout"}, save_ok \in BOOLEAN :
          DownloadWindow(answer, save_ok)

\* C31: in a backward update pass, a symbol whose earliest saved record is more
\* than one day after its configured start date, or which has no saved data at
\* all, gets a download task from the start date to the earliest saved time (to
\* now when nothing is saved).
C31_BackwardGapDownloaded ==
    (/\ dl_update.from_back
     /\ \/ dl_update.none_saved
        \/ dl_update.earliest - DlDayLen > dl_config.start_date)
    => /\ dl_update.spawned
       /\ dl_update.from = dl_config.start_date
       /\ dl_update.to = IF dl_update.none_saved THEN dl_config.now
                         ELSE dl_update.earliest

\* A backward pass ran over a symbol whose earliest saved record is more than a
\* day after the start date.
C31_Witness ==
    /\ dl_update.from_back
    /\ ~dl_update.none_saved
    /\ dl_update.earliest - DlDayLen > dl_config.start_date
    /\ dl_pc = "skipped"

\* C32: when the download of a symbol returns Ok and no save was left failed,
\* every record the vendor returned during the download has been saved, those
\* of windows that do not cross a UTC day boundary and those of the final day
\* included.
C32_ReturnedRecordsSaved ==
    (dl_pc = "Ok" /\ dl_failed_saves = 0) => dl_returned \subseteq dl_saved

\* A download returned Ok after the vendor returned records of two days or more
\* and a save succeeded.
C32_Witness ==
    /\ dl_pc = "Ok"
    /\ dl_failed_saves = 0
    /\ \E t \in dl_returned, u \in dl_returned : DlDayOf(t) # DlDayOf(u)
    /\ dl_returned \cap dl_saved # {}

\* C33: when saving a downloaded day keeps failing, the save is retried at most
\* three times (four calls fail in a row at most) and the download then ends
\* reporting failure: it does not return Ok with the save left failed.
C33_SaveRetriesBounded ==
    /\ dl_failed_saves <= MaxSaveAttempts + 1
    /\ dl_pc = "Ok" => dl_failed_saves = 0

\* The first save and its three retries have all failed.
C33_Witness ==
    /\ dl_failed_saves = MaxSaveAttempts + 1
    /\ dl_pc \in {"loop", "Ok"}

\* ------------------------------------------------------------------------------
\* The outgoing requests of a live strategy (server_connections.rs).
\* live_subscription_handler hands its requests to send_request one after the
\* other; request_handler receives them from the channel in that order and
\* spawns a task for each, and the task writes the request to the connection.
\* ------------------------------------------------------------------------------

\* the number of requests live_subscription_handler sends
MaxRequests == 4

\* The requests of one connection: the registration and the subscription sent at
\* the start, then the requests of two updates of the primary subscriptions.
LiveRequests ==
    [n \in 1 .. MaxRequests |->
        IF n = 1 THEN "Register" ELSE IF n % 2 = 0 THEN "Subscribe" ELSE "Unsubscribe"]

InitRequests ==
    /\ req_sent = 0
    /\ req_recv = 0
    /\ req_tasks = {}
    /\ req_written = <<>>

\* send_request(request).await: the request is on the channel of request_handler.
SendRequest ==
    /\ UNCHANGED notRequest
    /\ req_sent < MaxRequests
    /\ req_sent' = req_sent + 1
    /\ UNCHANGED <<req_recv, req_tasks, req_written>>

\* receiver.recv() hands over the next request and the handler spawns the task
\* that will write it.
RequestReceive ==
    /\ UNCHANGED notRequest
    /\ req_recv < req_sent
    /\ req_recv' = req_recv + 1
    /\ req_tasks' = req_tasks \cup {req_recv + 1}
    /\ UNCHANGED <<req_sent, req_written>>

\* A spawned task runs: send(connection_type, request.to_bytes()).await.
RequestTask(n) ==
    /\ UNCHANGED notRequest
    /\ n \in req_tasks
    /\ req_tasks' = req_tasks \ {n}
    /\ req_written' = Append(req_written, n)
    /\ UNCHANGED <<req_sent, req_recv>>

NextLiveRequests ==
    \/ SendRequest
    \/ RequestReceive
    \/ \E n \in 1 .. MaxRequests : RequestTask(n)

\* C38: the requests for one connection are written to it in the order in which
\* they were submitted: the Register before the first Subscribe, and a
\* Subscribe before the Unsubscribe that follows it.
C38_RequestsWrittenInOrder ==
    \A i \in DOMAIN req_written : \A j \in DOMAIN req_written :
        i < j => req_written[i] < req_written[j]

\* Two requests were on their tasks at once and both have been written.
C38_Witness ==
    /\ Len(req_written) >= 2
    /\ \E i \in DOMAIN req_written :
          /\ LiveRequests[req_written[i]] = "Subscribe"
          /\ \E j \in DOMAIN req_written : LiveRequests[req_written[j]] = "Register"

\* Every part in its initial state: the data server talks to one of the vendors,
\* the strategy runs against one of the vendor settings.
InitOf(vendors, settings) ==
    /\ \E v \in vendors : InitFanoutOf(v)
    /\ InitLedger
    /\ InitArchive
    /\ InitCallbacks
    /\ InitSubs(settings)
    /\ InitWarmup({WarmupIdle})
    /\ InitPosition({PositionIdle})
    /\ InitConsolidator
    /\ InitRequests
    /\ InitDownload({DownloadIdle})
    /\ InitRace
    /\ InitBackfill
    /\ InitStream

Init == InitOf({"Rithmic", "Oanda"}, {RithmicLive})

InitRithmic == InitOf({"Rithmic"}, {RithmicLive})

InitStrategy == InitOf({"Rithmic"}, VendorSettings)

InitLiveWarmup ==
    /\ InitFanoutOf("Rithmic")
    /\ InitLedger
    /\ InitArchive
    /\ InitCallbacks
    /\ InitSubs({RithmicLive})
    /\ InitWarmup(WarmupConfigs)
    /\ InitPosition({PositionIdle})
    /\ InitConsolidator
    /\ InitRequests
    /\ InitDownload({DownloadIdle})
    /\ InitRace
    /\ InitBackfill
    /\ InitStream

InitStopLoss ==
    /\ InitFanoutOf("Rithmic")
    /\ InitLedger
    /\ InitArchive
    /\ InitCallbacks
    /\ InitSubs({RithmicLive})
    /\ InitWarmup({WarmupIdle})
    /\ InitPosition(StopLossPositions)
    /\ InitConsolidator
    /\ InitRequests
    /\ InitDownload({DownloadIdle})
    /\ InitRace
    /\ InitBackfill
    /\ InitStream

InitTrailingStop ==
    /\ InitFanoutOf("Rithmic")
    /\ InitLedger
    /\ InitArchive
    /\ InitCallbacks
    /\ InitSubs({RithmicLive})
    /\ InitWarmup({WarmupIdle})
    /\ InitPosition(TrailingStopPositions)
    /\ InitConsolidator
    /\ InitRequests
    /\ InitDownload({DownloadIdle})
    /\ InitRace
    /\ InitBackfill
    /\ InitStream

InitUpdateSchedule ==
    /\ InitFanoutOf("Rithmic")
    /\ InitLedger
    /\ InitArchive
    /\ InitCallbacks
    /\ InitSubs({RithmicLive})
    /\ InitWarmup({WarmupIdle})
    /\ InitPosition({PositionIdle})
    /\ InitConsolidator
    /\ InitRequests
    /\ InitDownload(DownloadConfigs)
    /\ InitRace
    /\ InitBackfill
    /\ InitStream

SpecFanout == Init /\ [][NextFanout]_vars

SpecLedger == InitRithmic /\ [][NextLedger]_vars

SpecArchive == InitRithmic /\ [][NextArchive]_vars

SpecCallbacks == InitRithmic /\ [][NextCallbacks]_vars

SpecSubs == InitStrategy /\ [][NextSubs]_vars

SpecArchiveFaults == InitRithmic /\ [][NextArchiveFaults]_vars

SpecPosition == InitStopLoss /\ [][NextPosition]_vars

SpecRequests == InitRithmic /\ [][NextRequests]_vars /\ RequestFairness

SpecConsolidator == InitRithmic /\ [][NextConsolidator]_vars

SpecStream == InitRithmic /\ [][NextStream]_vars

SpecTrailingStop == InitTrailingStop /\ [][NextPosition]_vars

SpecBackfill == InitRithmic /\ [][NextBackfill]_vars

SpecRace == InitRithmic /\ [][NextRace]_vars

SpecLiveRequests == InitRithmic /\ [][NextLiveRequests]_vars

SpecUpdate == InitUpdateSchedule /\ [][NextUpdate]_vars

SpecWarmup == InitLiveWarmup /\ [][NextWarmup]_vars /\ WF_vars(WarmUpStep)
====
